---- MODULE Spec2Model ----
(***************************************************************************)
(* A model of the recipebox HTTP server runtime: the non-blocking buffered *)
(* writer, the resumable request parser (line, headers, body, message,     *)
(* request), the server driver that reads requests from a connection and   *)
(* writes responses, the router, the slab of connections, the limited      *)
(* reader, the thread pool and the event loop.                             *)
(*                                                                         *)
(* Bytes are integers 0..255.  Strings of the source are sequences of      *)
(* bytes.  An io error is a string naming its ErrorKind.                   *)
(***************************************************************************)
EXTENDS Integers, Sequences, FiniteSets, TLC

VARIABLES
    w,          \* writer harness: the NonBlockingBufWriter under test
    written,    \* writer harness: every byte the caller passed to write, in call order
    wfailed,    \* writer harness: some write/flush call returned Err
    wlast,      \* the last call on a writer (writer harness: what the inner writer
                \* did, the result; server: whether the job's flush or writes were Ok)
    pmode,      \* parse harness: the parser driven, "request", "headers" or "body"
    pin,        \* parse harness: all the bytes the stream will ever deliver
    pavail,     \* parse harness: how many of them have arrived
    ptail,      \* parse harness: "WouldBlock" while the stream is open, then "eof"
    ppos,       \* parse harness: how many bytes the parser has consumed
    pparser,    \* parse harness: the parser, as returned by the last parse call
    pres,       \* parse harness: the final result, st = "none" until there is one
    psuspended, \* parse harness: some parse call returned the parser with WouldBlock
    overflow_checks, \* the build has overflow checks (a debug build)
    sin,        \* server: all the bytes the client will ever send
    savail,     \* server: how many of them have reached the socket
    sclosed,    \* server: the client has closed its side (nothing arrives any more)
    rpos,       \* server: how many bytes the connection has read
    rstart,     \* server: where in the stream the request being read begins
    cell,       \* server: the Mutex<Option<Connection>>: "Some" or "None"
    conn,       \* server: the Connection: its parser (an Option) and its writer
    lock,       \* server: the worker holding the mutex, or 0
    queue,      \* server: jobs queued in the thread pool
    events,     \* server: readiness events delivered so far
    pc,         \* server: what each worker thread is doing
    read_log,   \* server: the result of every read_request call, in order
    routed,     \* server: the uri of every request passed to the router, in order
    handed,     \* server: every byte passed to the connection's write, in order
    dropped,    \* server: <<>> or how the connection was dropped
    routers,    \* router harness: the routers under construction, innermost last
    listeners_made, \* router harness: how many listeners have been registered
    rres,       \* router harness: the last request routed, its result and its calls
    slab,       \* slab harness: the Slab under test
    freed,      \* slab harness: the keys removed and not reused, oldest first
    slast,      \* slab harness: the last call, its argument, result and previews
    take,       \* reader harness: the ErrorTake under test, its stream, its last call
    pool,       \* pool harness: the channel, the workers and what they have done
    poll        \* event loop: the slab of connections, the accepted streams, the
                \* listener and where the loop stands

wvars == <<w, written, wfailed, wlast>>
pvars == <<pmode, pin, pavail, ptail, ppos, pparser, pres, psuspended, overflow_checks>>
svars == <<sin, savail, sclosed, rpos, rstart, cell, conn, lock, queue, events, pc,
           read_log, routed, handed, dropped>>
uvars == <<routers, listeners_made, rres, slab, freed, slast, take, pool, poll>>
tvars == <<take, pool, poll>>
vars == <<w, written, wfailed, wlast, pmode, pin, pavail, ptail, ppos, pparser, pres,
          psuspended, overflow_checks, sin, savail, sclosed, rpos, rstart, cell, conn,
          lock, queue, events, pc, read_log, routed, handed, dropped, routers,
          listeners_made, rres, slab, freed, slast, take, pool, poll>>

-----------------------------------------------------------------------------
(* Bounds of the model *)

\* capacity handed to NonBlockingBufWriter::with_capacity by the writer harness
WriterCap == 2
\* longest slice the writer harness passes to one write call
MaxWriteLen == 4
\* total number of bytes the writer harness passes to write
MaxWritten == 7

-----------------------------------------------------------------------------
(* Sequence helpers *)

Min(a, b) == IF a < b THEN a ELSE b
Max(a, b) == IF a > b THEN a ELSE b
Take(s, n) == SubSeq(s, 1, Min(n, Len(s)))
Drop(s, n) == SubSeq(s, Min(n, Len(s)) + 1, Len(s))

-----------------------------------------------------------------------------
(* NonBlockingBufWriter  (src/server/nonblocking_buf_writer.rs) *)

\* The possible courses of one write_until_blocked call on `len` bytes: the
\* inner writer accepts n bytes in total and then the loop ends because all
\* bytes are written ("ok"), because inner.write reported WouldBlock
\* ("block") or because it reported another error ("err").
Outcomes(len) ==
    {[n |-> len, kind |-> "ok"]}
        \cup {[n |-> k, kind |-> t] : k \in 0..(len - 1), t \in {"block", "err"}}

\* Vec<u8>::with_capacity(capacity) followed by nothing: pos 0, empty buf.
with_capacity(capacity) ==
    [buf |-> <<>>, pos |-> 0, cap |-> capacity, inner |-> <<>>]

\* write_until_blocked without the WouldBlock arm of its match: WouldBlock
\* is returned to the caller like any other error.
write_until_blocked_strict(inner, data, r) ==
    [inner |-> inner \o Take(data, r.n), amount |-> r.n, ok |-> r.kind = "ok"]

\* write_until_blocked(writer, buf): `inner` is the byte sequence the inner
\* writer has accepted so far.
write_until_blocked(inner, data, r) ==
    [inner |-> inner \o Take(data, r.n), amount |-> r.n, ok |-> r.kind # "err"]

\* Capacity of a Vec<u8> after appending so that its length becomes `needed`
\* (Vec::extend_from_slice -> reserve -> amortized growth, minimum 8 for u8).
VecGrow(cap, needed) ==
    IF needed <= cap THEN cap ELSE Max(8, Max(2 * cap, needed))

\* flush_buf(&mut self)
flush_buf(wr, r) ==
    LET res == write_until_blocked(wr.inner, Drop(wr.buf, wr.pos), r)
        pos2 == wr.pos + res.amount
    IN  IF ~res.ok
        THEN [w |-> [wr EXCEPT !.inner = res.inner], ok |-> FALSE]
        ELSE IF pos2 >= Len(wr.buf)
             THEN [w |-> [wr EXCEPT !.inner = res.inner, !.pos = 0, !.buf = <<>>],
                   ok |-> TRUE]
             ELSE [w |-> [wr EXCEPT !.inner = res.inner, !.pos = pos2], ok |-> TRUE]

\* self.buf.write(buf): Vec's Write appends and never fails.
buf_append(wr, data) ==
    [wr EXCEPT !.buf = wr.buf \o data,
               !.cap = VecGrow(wr.cap, Len(wr.buf) + Len(data))]

\* <NonBlockingBufWriter as Write>::write(&mut self, buf).  r1 is the course
\* of the flush_buf call, r2 of the direct write_until_blocked call.  `ret`
\* is the usize of an Ok result; `calls` lists the courses of the calls
\* that were made on the inner writer.
write(wr, data, r1, r2) ==
    IF Len(wr.buf) + Len(data) > wr.cap
    THEN LET f == flush_buf(wr, r1) IN
         IF ~f.ok THEN [w |-> f.w, ok |-> FALSE, ret |-> 0, calls |-> <<r1>>]
         ELSE IF f.w.pos = 0 /\ Len(data) > f.w.cap
              THEN LET d == write_until_blocked(f.w.inner, data, r2) IN
                   IF ~d.ok
                   THEN [w |-> [f.w EXCEPT !.inner = d.inner], ok |-> FALSE,
                         ret |-> 0, calls |-> <<r1, r2>>]
                   ELSE [w |-> buf_append([f.w EXCEPT !.inner = d.inner],
                                          Drop(data, d.amount)),
                         ok |-> TRUE, ret |-> Len(data), calls |-> <<r1, r2>>]
              ELSE [w |-> buf_append(f.w, data), ok |-> TRUE, ret |-> Len(data),
                    calls |-> <<r1>>]
    ELSE [w |-> buf_append(wr, data), ok |-> TRUE, ret |-> Len(data),
          calls |-> <<>>]

\* flush_inner(&mut self): fl is the result of inner.flush().
flush_inner(fl) == fl # "err"

\* <NonBlockingBufWriter as Write>::flush(&mut self)
flush(wr, r1, fl) ==
    LET f == flush_buf(wr, r1) IN
    IF ~f.ok THEN f ELSE [w |-> f.w, ok |-> flush_inner(fl)]

\* The bytes the writer still owes the inner writer: buf[pos..].
Pending(wr) == Drop(wr.buf, wr.pos)

-----------------------------------------------------------------------------
(* Bytes and strings *)

LF == 10
CR == 13
SP == 32
COLON == 58

\* F applied to v: gives the value of an expression a name.
Bind(v, F(_)) == F(v)

Last(s) == s[Len(s)]
Front(s) == SubSeq(s, 1, Len(s) - 1)

\* Index of the first occurrence of byte b among the first n bytes of s, or 0.
IndexOf(s, b, n) ==
    IF \E i \in 1..Min(n, Len(s)) : s[i] = b
    THEN CHOOSE i \in 1..Min(n, Len(s)) :
             s[i] = b /\ \A j \in 1..(i - 1) : s[j] # b
    ELSE 0

\* Index where the first occurrence of pat starts in s, or 0 (str::find).
Find(s, pat) ==
    LET starts == {i \in 1..(Len(s) - Len(pat) + 1) :
                       SubSeq(s, i, i + Len(pat) - 1) = pat}
    IN  IF starts = {} THEN 0
        ELSE CHOOSE i \in starts : \A j \in starts : i <= j

\* str::contains
Contains(s, pat) == Find(s, pat) # 0

\* u8::to_ascii_lowercase over a string (String::make_ascii_lowercase)
make_ascii_lowercase(s) ==
    [i \in 1..Len(s) |-> IF s[i] \in 65..90 THEN s[i] + 32 ELSE s[i]]

\* A UTF-8 continuation byte
IsCont(b) == b \in 128..191

\* core::str::from_utf8(s).is_ok()
RECURSIVE IsUtf8(_)
IsUtf8(s) ==
    IF s = <<>> THEN TRUE
    ELSE LET b == s[1] IN
         IF b < 128 THEN IsUtf8(Tail(s))
         ELSE IF b \in 194..223
         THEN Len(s) >= 2 /\ IsCont(s[2]) /\ IsUtf8(Drop(s, 2))
         ELSE IF b \in 224..239
         THEN /\ Len(s) >= 3
              /\ s[2] \in (IF b = 224 THEN 160..191
                           ELSE IF b = 237 THEN 128..159 ELSE 128..191)
              /\ IsCont(s[3])
              /\ IsUtf8(Drop(s, 3))
         ELSE IF b \in 240..244
         THEN /\ Len(s) >= 4
              /\ s[2] \in (IF b = 240 THEN 144..191
                           ELSE IF b = 244 THEN 128..143 ELSE 128..191)
              /\ IsCont(s[3]) /\ IsCont(s[4])
              /\ IsUtf8(Drop(s, 4))
         ELSE FALSE

\* String::pop on a non-empty string: the string without its last char.
RECURSIVE PopChar(_)
PopChar(s) ==
    IF Len(s) > 1 /\ IsCont(Last(s)) THEN PopChar(Front(s)) ELSE Front(s)

\* The last char of a non-empty string is the one-byte char b.
LastCharIs(s, b) == s # <<>> /\ Last(s) = b

\* The pieces of str::split(' ').
RECURSIVE Split(_, _)
Split(s, sep) ==
    LET i == IndexOf(s, sep, Len(s)) IN
    IF i = 0 THEN <<s>> ELSE <<Take(s, i - 1)>> \o Split(Drop(s, i), sep)

\* Value of an ASCII digit in the given radix, or -1 (char::to_digit).
to_digit(b, radix) ==
    LET v == IF b \in 48..57 THEN b - 48
             ELSE IF b \in 97..122 THEN b - 97 + 10
             ELSE IF b \in 65..90 THEN b - 65 + 10
             ELSE -1
    IN  IF v < radix THEN v ELSE -1

\* Values from here on are all "too large" for every limit of the parser; the
\* accumulation saturates there (usize itself overflows only at 2^64).
Saturated == 1000000

RECURSIVE DigitsValue(_, _, _)
DigitsValue(s, radix, acc) ==
    IF s = <<>> THEN acc
    ELSE DigitsValue(Tail(s), radix,
                     Min(Saturated, acc * radix + to_digit(s[1], radix)))

\* usize::from_str_radix(s, radix): an optional '+', then at least one digit.
\* Returns the value, or -1 for Err.
from_str_radix(s, radix) ==
    LET digits == IF s # <<>> /\ s[1] = 43 THEN Tail(s) ELSE s IN
    IF digits = <<>> \/ \E i \in 1..Len(digits) : to_digit(digits[i], radix) < 0
    THEN -1
    ELSE DigitsValue(digits, radix, 0)

-----------------------------------------------------------------------------
(* Parsing.  One parse call sees `data`, the bytes that have arrived and    *)
(* are not yet consumed, and `tail`, what the stream reports once they are  *)
(* used up: "eof" (a read of 0 bytes) or the ErrorKind of an io error       *)
(* ("WouldBlock", ...).  `lim` is the quota left in the ErrorTake readers   *)
(* wrapped around the stream (NoLimit: none).  Every parser returns a       *)
(* record: st = "done" with the value, "io" with the parser to resume and   *)
(* the io error, "err" with the ParsingError, or "panic"; `rest` is the     *)
(* data it has left unconsumed.  `sizes` and `path` are not part of the     *)
(* program's result: a chunked body parse records there the declared sizes *)
(* of the chunks it has read and the states its parser has been in.        *)

MAX_LINE_SIZE == 32
MAX_HEADERS_SIZE == 48
MAX_BODY_SIZE == 16

NoLimit == -1

Done(v, rest) ==
    [st |-> "done", val |-> v, err |-> "", rest |-> rest, sizes |-> <<>>,
     path |-> <<>>]
IoErr(parser, e, rest) ==
    [st |-> "io", val |-> parser, err |-> e, rest |-> rest, sizes |-> <<>>,
     path |-> <<>>]
Fail(e, rest) ==
    [st |-> "err", val |-> <<>>, err |-> e, rest |-> rest, sizes |-> <<>>,
     path |-> <<>>]
Panic(rest) ==
    [st |-> "panic", val |-> <<>>, err |-> "", rest |-> rest, sizes |-> <<>>,
     path |-> <<>>]

\* The smaller of two quotas.
MinLimit(a, b) == IF a = NoLimit THEN b ELSE IF b = NoLimit THEN a ELSE Min(a, b)

\* What is left of a quota after `used` bytes.
LimitAfter(lim, used) == IF lim = NoLimit THEN NoLimit ELSE lim - used

\* The number of bytes a reader with quota lim can deliver now.
Visible(data, lim) == IF lim = NoLimit THEN Len(data) ELSE Min(lim, Len(data))

\* The result of a read or fill_buf once `n` bytes have been taken and the
\* (limited) reader can deliver no more: ErrorTake::check_limit comes first,
\* then the stream.  "ok" is a read of 0 bytes (end of file).
Exhausted(n, tail, lim) ==
    IF lim # NoLimit /\ n = lim THEN "Other"    \* "read limit reached"
    ELSE IF tail = "eof" THEN "ok" ELSE tail

\* `limit - used` in usize, the argument of error_take: -2 stands for the
\* panic of a build with overflow checks, NoLimit for the wrapped (huge) value
\* of a build without them.
Budget(limit, used, checks) ==
    IF used <= limit THEN limit - used
    ELSE IF checks THEN -2 ELSE NoLimit

\* BufRead::read_until(b'\n', buf): the bytes appended and the result.
read_until(data, tail, lim) ==
    LET vis == Visible(data, lim)
        nl == IndexOf(data, LF, vis)
    IN  IF nl > 0
        THEN [bytes |-> Take(data, nl), rest |-> Drop(data, nl), res |-> "ok"]
        ELSE [bytes |-> Take(data, vis), rest |-> Drop(data, vis),
              res |-> Exhausted(vis, tail, lim)]

\* BufRead::read_line(buf): read_until, but the bytes read by this call are
\* appended only if they are valid UTF-8 on their own; otherwise they are
\* dropped and an Ok result becomes InvalidData (an io error stays).
read_line(line, data, tail, lim) ==
    LET r == read_until(data, tail, lim)
        valid == IsUtf8(r.bytes)
    IN  [line |-> IF valid THEN line \o r.bytes ELSE line,
         rest |-> r.rest,
         res |-> IF ~valid /\ r.res = "ok" THEN "InvalidData" ELSE r.res]

\* LineDeframer::read; the deframer is its `line`.
LineDeframer_read(line, data, tail, lim) ==
    Bind(read_line(line, data, tail, lim), LAMBDA r :
        IF r.res = "ok"
        THEN IF LastCharIs(r.line, LF)
             THEN Done(Front(r.line), r.rest)
             ELSE IoErr(IF r.line = <<>> THEN <<>> ELSE PopChar(r.line),
                        "UnexpectedEof", r.rest)
        ELSE IoErr(r.line, r.res, r.rest))

\* LineDeframer::read_so_far
LineDeframer_read_so_far(line) == Len(line)

\* parse_crlf_line
parse_crlf_line(line, rest) ==
    IF LastCharIs(line, CR) THEN Done(Front(line), rest)
    ELSE Fail("BadSyntax", rest)

\* CrlfLineParser::parse; the parser is the line of its LineDeframer.
CrlfLineParser_parse(line, data, tail, lim) ==
    LET own == MAX_LINE_SIZE - LineDeframer_read_so_far(line) IN
    Bind(LineDeframer_read(line, data, tail, MinLimit(lim, own)), LAMBDA r :
        IF r.st = "done" THEN parse_crlf_line(r.val, r.rest)
        ELSE IF r.err = "InvalidData" THEN Fail("InvalidUtf8", r.rest)
        ELSE r)

\* parse_header: splits at the first ": "; the name is lowercased
\* (Header::from), the value kept.
parse_header(raw) ==
    LET i == Find(raw, <<COLON, SP>>) IN
    IF i = 0 THEN [ok |-> FALSE, pair |-> <<>>]
    ELSE [ok |-> TRUE,
          pair |-> <<make_ascii_lowercase(Take(raw, i - 1)), Drop(raw, i + 1)>>]

\* HeadersParser::new
HeadersParser_new == [inner |-> <<>>, headers |-> <<>>, read |-> 0]

\* The loop of HeadersParser::parse.  A header map is the sequence of its
\* (name, value) pairs in insertion order.
RECURSIVE HeadersLoop(_, _, _, _, _, _)
HeadersLoop(inner, headers, read, data, tail, lim) ==
    Bind(CrlfLineParser_parse(inner, data, tail, lim), LAMBDA r :
        IF r.st = "err" THEN r
        ELSE IF r.st = "io"
        THEN IoErr([inner |-> r.val, headers |-> headers, read |-> read],
                   r.err, r.rest)
        ELSE IF r.val = <<>> THEN Done(headers, r.rest)
        ELSE LET h == parse_header(r.val) IN
             IF ~h.ok THEN Fail("BadSyntax", r.rest)
             ELSE HeadersLoop(<<>>, Append(headers, h.pair), read + Len(r.val),
                              r.rest, tail,
                              LimitAfter(lim, Len(data) - Len(r.rest))))

\* HeadersParser::parse
HeadersParser_parse(p, data, tail, checks) ==
    LET lim == Budget(MAX_HEADERS_SIZE, p.read, checks) IN
    IF lim = -2 THEN Panic(data)
    ELSE HeadersLoop(p.inner, p.headers, p.read, data, tail, lim)

\* Header names and values the parser looks for (as bytes).
CONTENT_LENGTH == <<99, 111, 110, 116, 101, 110, 116, 45, 108, 101, 110, 103, 116, 104>>
TRANSFER_ENCODING ==
    <<116, 114, 97, 110, 115, 102, 101, 114, 45, 101, 110, 99, 111, 100, 105, 110, 103>>
CONNECTION == <<99, 111, 110, 110, 101, 99, 116, 105, 111, 110>>
STR_chunked == <<99, 104, 117, 110, 107, 101, 100>>
STR_close == <<99, 108, 111, 115, 101>>

\* HeaderMapOps::get_first_header_value: <<value>>, or <<>> for None.
get_first_header_value(headers, k) ==
    LET idx == {i \in 1..Len(headers) : headers[i][1] = k} IN
    IF idx = {} THEN <<>>
    ELSE <<headers[CHOOSE i \in idx : \A j \in idx : i <= j][2]>>

\* HeaderMapOps::contains_header_value
contains_header_value(headers, k, v) ==
    \E i \in 1..Len(headers) : headers[i][1] = k /\ headers[i][2] = v

\* BytesDeframer::new(size): `got` are the bytes data[..pos].
BytesDeframer_new(size) == [size |-> size, got |-> <<>>]

\* A faulty BytesDeframer::read that returns only the bytes of the last call,
\* forgetting those read before a suspension.
BytesDeframer_read_forgetful(d, data, tail, lim) ==
    LET need == d.size - Len(d.got)
        vis == Visible(data, lim)
    IN  IF vis >= need
        THEN Done(Take(data, need), Drop(data, need))
        ELSE LET e == Exhausted(vis, tail, lim) IN
             IoErr([d EXCEPT !.got = d.got \o Take(data, vis)],
                   IF e = "ok" THEN "UnexpectedEof" ELSE e,
                   Drop(data, vis))

\* A faulty BytesDeframer::read that takes whatever the reader has when it
\* completes, not only the bytes that were missing.
BytesDeframer_read_greedy(d, data, tail, lim) ==
    LET need == d.size - Len(d.got)
        vis == Visible(data, lim)
    IN  IF vis >= need
        THEN Done(d.got \o Take(data, need), Drop(data, vis))
        ELSE LET e == Exhausted(vis, tail, lim) IN
             IoErr([d EXCEPT !.got = d.got \o Take(data, vis)],
                   IF e = "ok" THEN "UnexpectedEof" ELSE e,
                   Drop(data, vis))

\* BytesDeframer::read
BytesDeframer_read(d, data, tail, lim) ==
    LET need == d.size - Len(d.got)
        vis == Visible(data, lim)
    IN  IF vis >= need
        THEN Done(d.got \o Take(data, need), Drop(data, need))
        ELSE LET e == Exhausted(vis, tail, lim) IN
             IoErr([d EXCEPT !.got = d.got \o Take(data, vis)],
                   IF e = "ok" THEN "UnexpectedEof" ELSE e,
                   Drop(data, vis))

\* BytesDeframer::read_so_far: the length of the whole pre-sized buffer.
BytesDeframer_read_so_far(d) == d.size

\* BytesUntilEofDeframer::read (Read::read_to_end); the deframer is its data.
BytesUntilEofDeframer_read(got, data, tail, lim) ==
    LET vis == Visible(data, lim)
        e == Exhausted(vis, tail, lim)
    IN  IF e = "ok" THEN Done(got \o Take(data, vis), Drop(data, vis))
        ELSE IoErr(got \o Take(data, vis), e, Drop(data, vis))

\* BytesUntilEofDeframer::read_so_far
BytesUntilEofDeframer_read_so_far(got) == Len(got)

\* parse_chunk_size: the size, or -1 for Err(InvalidChunkSize).
parse_chunk_size(raw) ==
    LET size == from_str_radix(raw, 16) IN
    IF size < 0 \/ size > MAX_BODY_SIZE THEN -1 ELSE size

\* ChunksParser::new.  `sizes` and `path` are not fields of the source: they
\* record the declared size of every chunk read and every state the parser
\* has been in (for the properties).
ChunksParser_new ==
    [body |-> <<>>, state |-> "Size", line |-> <<>>,
     deframer |-> BytesDeframer_new(0), is_last |-> FALSE, sizes |-> <<>>,
     path |-> <<"Size">>]

\* The parser in its next state.
ChunksEnter(p, state) ==
    [p EXCEPT !.state = state, !.line = <<>>, !.path = Append(p.path, state)]

\* A final result with what the parser has recorded.
ChunksEnd(p, r) == [r EXCEPT !.sizes = p.sizes, !.path = p.path]

\* A data_state that takes every chunk for the last one.
is_last_chunk_always(data) == TRUE

\* data_state: let is_last = data.is_empty();
is_last_chunk(data) == data = <<>>

\* The loop of ChunksParser::parse with size_state, data_state and
\* tailing_crlf_state.
RECURSIVE ChunksLoop(_, _, _, _)
ChunksLoop(p, data, tail, lim) ==
    IF p.state = "Finished" THEN ChunksEnd(p, Done(p.body, data))
    ELSE IF p.state = "Size"
    THEN Bind(CrlfLineParser_parse(p.line, data, tail, lim), LAMBDA r :
             IF r.st = "err" THEN ChunksEnd(p, r)
             ELSE IF r.st = "io"
             THEN IoErr([p EXCEPT !.line = r.val], r.err, r.rest)
             ELSE LET size == parse_chunk_size(r.val) IN
                  IF size < 0 THEN ChunksEnd(p, Fail("InvalidChunkSize", r.rest))
                  ELSE ChunksLoop([ChunksEnter(p, "Data") EXCEPT
                                       !.deframer = BytesDeframer_new(size),
                                       !.sizes = Append(p.sizes, size)],
                                  r.rest, tail,
                                  LimitAfter(lim, Len(data) - Len(r.rest))))
    ELSE IF p.state = "Data"
    THEN Bind(BytesDeframer_read(p.deframer, data, tail, lim), LAMBDA r :
             IF r.st = "io"
             THEN IoErr([p EXCEPT !.deframer = r.val], r.err, r.rest)
             ELSE ChunksLoop([ChunksEnter(p, "TailingCrlf") EXCEPT
                                  !.is_last = is_last_chunk(r.val),
                                  !.body = p.body \o r.val],
                             r.rest, tail,
                             LimitAfter(lim, Len(data) - Len(r.rest))))
    ELSE Bind(CrlfLineParser_parse(p.line, data, tail, lim), LAMBDA r :
             IF r.st = "err" THEN ChunksEnd(p, r)
             ELSE IF r.st = "io"
             THEN IoErr([p EXCEPT !.line = r.val], r.err, r.rest)
             ELSE IF r.val # <<>> THEN ChunksEnd(p, Fail("BadSyntax", r.rest))
             ELSE ChunksLoop(ChunksEnter(p, IF p.is_last THEN "Finished"
                                            ELSE "Size"),
                             r.rest, tail,
                             LimitAfter(lim, Len(data) - Len(r.rest))))

\* ChunksParser::data_so_far
data_so_far(p) == Len(p.body)

\* get_content_length: <<>> for None, <<size>> for Some(Ok(size)), <<-1>> for
\* Some(Err(InvalidHeaderValue)).
get_content_length(headers) ==
    LET v == get_first_header_value(headers, CONTENT_LENGTH) IN
    IF v = <<>> THEN <<>> ELSE <<from_str_radix(v[1], 10)>>

\* is_chunked_transfer_encoding
is_chunked_transfer_encoding(headers) ==
    LET v == get_first_header_value(headers, TRANSFER_ENCODING) IN
    v # <<>> /\ Contains(v[1], STR_chunked)

\* BodyParser::new: [ok, err, parser]
BodyParser_new(headers, read_if_no_content_length) ==
    LET cl == get_content_length(headers)
        none == [kind |-> "Empty"]
    IN  IF cl # <<>>
        THEN IF cl[1] < 0
             THEN [ok |-> FALSE, err |-> "InvalidHeaderValue", parser |-> none]
             ELSE IF cl[1] > MAX_BODY_SIZE
             THEN [ok |-> FALSE, err |-> "ContentLengthTooLarge", parser |-> none]
             ELSE [ok |-> TRUE, err |-> "",
                   parser |-> [kind |-> "WithSize", p |-> BytesDeframer_new(cl[1])]]
        ELSE IF is_chunked_transfer_encoding(headers)
        THEN [ok |-> TRUE, err |-> "",
              parser |-> [kind |-> "Chunked", p |-> ChunksParser_new]]
        ELSE IF read_if_no_content_length
        THEN [ok |-> TRUE, err |-> "", parser |-> [kind |-> "UntilEof", p |-> <<>>]]
        ELSE [ok |-> TRUE, err |-> "", parser |-> none]

\* BodyParser::read_so_far
BodyParser_read_so_far(bp) ==
    IF bp.kind = "WithSize" THEN BytesDeframer_read_so_far(bp.p)
    ELSE IF bp.kind = "UntilEof" THEN BytesUntilEofDeframer_read_so_far(bp.p)
    ELSE IF bp.kind = "Chunked" THEN data_so_far(bp.p)
    ELSE 0

\* ParseStatus::map_blocked: re-wrap the parser of an IoErr.
map_blocked(r, kind) ==
    IF r.st = "io" THEN [r EXCEPT !.val = [kind |-> kind, p |-> r.val]] ELSE r

\* BodyParser::parse
BodyParser_parse(bp, data, tail, checks) ==
    LET lim == Budget(MAX_BODY_SIZE, BodyParser_read_so_far(bp), checks) IN
    IF lim = -2 THEN Panic(data)
    ELSE IF bp.kind = "WithSize"
    THEN map_blocked(BytesDeframer_read(bp.p, data, tail, lim), "WithSize")
    ELSE IF bp.kind = "UntilEof"
    THEN map_blocked(BytesUntilEofDeframer_read(bp.p, data, tail, lim), "UntilEof")
    ELSE IF bp.kind = "Chunked"
    THEN map_blocked(ChunksLoop(bp.p, data, tail, lim), "Chunked")
    ELSE Done(<<>>, data)

\* Method::try_from_str: the Method, or "" for None.
try_from_str(raw) ==
    IF raw = <<71, 69, 84>> THEN "GET"
    ELSE IF raw = <<80, 79, 83, 84>> THEN "POST"
    ELSE IF raw = <<68, 69, 76, 69, 84, 69>> THEN "DELETE"
    ELSE IF raw = <<80, 85, 84>> THEN "PUT"
    ELSE ""

HTTP_VERSION_1_0 == <<72, 84, 84, 80, 47, 49, 46, 48>>
HTTP_VERSION_1_1 == <<72, 84, 84, 80, 47, 49, 46, 49>>

\* version::is_supported
is_supported(raw) == raw = HTTP_VERSION_1_1 \/ raw = HTTP_VERSION_1_0

\* parse_first_line with parse_method: the (method, uri) pair or the error.
parse_first_line(line, rest) ==
    LET split == Split(line, SP) IN
    IF Len(split) < 3 THEN Fail("BadSyntax", rest)
    ELSE IF ~is_supported(split[3]) THEN Fail("InvalidHttpVersion", rest)
    ELSE IF try_from_str(split[1]) = "" THEN Fail("UnrecognizedMethod", rest)
    ELSE Done(<<try_from_str(split[1]), split[2]>>, rest)

\* FirstLineParser::parse; the parser is the line of its CrlfLineParser.
FirstLineParser_parse(line, data, tail) ==
    Bind(CrlfLineParser_parse(line, data, tail, NoLimit), LAMBDA r :
        IF r.st = "done" THEN parse_first_line(r.val, r.rest) ELSE r)

\* RequestParser::new: MessageParser::new(FirstLineParser::new(), false)
RequestParser_new ==
    [state |-> "FirstLine", line |-> <<>>, first_line |-> <<>>,
     hp |-> HeadersParser_new, headers |-> <<>>, bp |-> [kind |-> "Empty"],
     read_body_if_no_content_length |-> FALSE]

\* body_state, then the Finished arm of MessageParser::parse
body_state(p, data, tail, checks) ==
    Bind(BodyParser_parse(p.bp, data, tail, checks), LAMBDA r :
        IF r.st = "io" THEN IoErr([p EXCEPT !.bp = r.val], r.err, r.rest)
        ELSE IF r.st = "done"
        THEN [r EXCEPT !.val = [first_line |-> p.first_line,
                                headers |-> p.headers, body |-> r.val]]
        ELSE r)

\* headers_state, continuing into the Body state
headers_state(p, data, tail, checks) ==
    Bind(HeadersParser_parse(p.hp, data, tail, checks), LAMBDA r :
        IF r.st = "io" THEN IoErr([p EXCEPT !.hp = r.val], r.err, r.rest)
        ELSE IF r.st = "done"
        THEN LET b == BodyParser_new(r.val, p.read_body_if_no_content_length) IN
             IF ~b.ok THEN Fail(b.err, r.rest)
             ELSE body_state([p EXCEPT !.state = "Body", !.headers = r.val,
                                       !.hp = HeadersParser_new, !.bp = b.parser],
                             r.rest, tail, checks)
        ELSE r)

\* first_line_state, continuing into the Headers state
first_line_state(p, data, tail, checks) ==
    Bind(FirstLineParser_parse(p.line, data, tail), LAMBDA r :
        IF r.st = "io" THEN IoErr([p EXCEPT !.line = r.val], r.err, r.rest)
        ELSE IF r.st = "done"
        THEN headers_state([p EXCEPT !.state = "Headers", !.line = <<>>,
                                     !.first_line = r.val],
                           r.rest, tail, checks)
        ELSE r)

\* MessageParser::parse
MessageParser_parse(p, data, tail, checks) ==
    IF p.state = "FirstLine" THEN first_line_state(p, data, tail, checks)
    ELSE IF p.state = "Headers" THEN headers_state(p, data, tail, checks)
    ELSE body_state(p, data, tail, checks)

\* RequestParser::parse: the Request built from the message.
RequestParser_parse(p, data, tail, checks) ==
    Bind(MessageParser_parse(p, data, tail, checks), LAMBDA r :
        IF r.st = "done"
        THEN [r EXCEPT !.val = [method |-> r.val.first_line[1],
                                uri |-> r.val.first_line[2],
                                headers |-> r.val.headers, body |-> r.val.body]]
        ELSE r)

\* RequestParser::has_data
has_data(p) ==
    IF p.state = "FirstLine" THEN LineDeframer_read_so_far(p.line) > 0 ELSE TRUE

-----------------------------------------------------------------------------
(* Writer harness: any sequence of write and flush calls on one writer; the *)
(* caller stops using the writer once a call returned Err.                 *)

\* The parse harness when it is not in use.
ParseIdle ==
    /\ pmode = "none" /\ pin = <<>> /\ pavail = 0 /\ ptail = "WouldBlock"
    /\ ppos = 0 /\ pparser = <<>> /\ pres = [st |-> "none"]
    /\ psuspended = FALSE

\* The server when it is not in use.
ServerIdle ==
    /\ sin = <<>> /\ savail = 0 /\ sclosed = FALSE /\ rpos = 0 /\ rstart = 0
    /\ cell = "None" /\ conn = <<>> /\ lock = 0 /\ queue = 0 /\ events = 0
    /\ pc = <<>> /\ read_log = <<>> /\ routed = <<>> /\ handed = <<>>
    /\ dropped = <<>>

\* The router and slab harnesses when they are not in use.
UtilIdle ==
    /\ routers = <<>> /\ listeners_made = 0 /\ rres = <<>>
    /\ slab = <<>> /\ freed = <<>> /\ slast = <<>>
    /\ take = <<>> /\ pool = <<>> /\ poll = <<>>

WriterInit ==
    /\ w = with_capacity(WriterCap)
    /\ written = <<>>
    /\ wfailed = FALSE
    /\ wlast = <<>>
    /\ ParseIdle
    /\ ServerIdle
    /\ UtilIdle
    /\ overflow_checks = FALSE

\* The caller's n-th byte overall has value n, so loss, duplication and
\* reordering all show in the byte values.
NextBytes(n) == [i \in 1..n |-> Len(written) + i]

WriterWrite ==
    \E n \in 0..MaxWriteLen :
        /\ ~wfailed
        /\ Len(written) + n <= MaxWritten
        /\ \E r1 \in Outcomes(Len(Pending(w))), r2 \in Outcomes(n) :
              LET res == write(w, NextBytes(n), r1, r2) IN
              /\ w' = res.w
              /\ written' = written \o NextBytes(n)
              /\ wfailed' = (wfailed \/ ~res.ok)
              /\ wlast' = <<[op |-> "write", len |-> n, ok |-> res.ok,
                              ret |-> res.ret, calls |-> res.calls,
                              flushed |-> "none", before |-> w]>>
              /\ UNCHANGED <<pvars, svars, uvars>>

WriterFlush ==
    \E r1 \in Outcomes(Len(Pending(w))), fl \in {"ok", "block", "err"} :
        LET res == flush(w, r1, fl) IN
        /\ ~wfailed
        /\ w' = res.w
        /\ wfailed' = (wfailed \/ ~res.ok)
        /\ wlast' = <<[op |-> "flush", len |-> 0, ok |-> res.ok, ret |-> 0,
                        calls |-> <<r1>>,
                        flushed |-> IF r1.kind = "err" THEN "none" ELSE fl,
                        before |-> w]>>
        /\ UNCHANGED <<written, pvars, svars, uvars>>

WriterNext == WriterWrite \/ WriterFlush

SpecWriter == WriterInit /\ [][WriterNext]_vars

-----------------------------------------------------------------------------
(* Parse harness: one parser is driven over a stream whose bytes arrive in  *)
(* any fragmentation; a parse call may be made at any time, and the parser  *)
(* returned with WouldBlock is the one the next call resumes (as the parser *)
(* tests' test_blocking does and as Connection::read_request does).        *)

CRLF == <<CR, LF>>
Line(str) == str \o CRLF

\* n bytes 'a', 'b', 'c', ...
DataBytes(n) == [i \in 1..n |-> 96 + i]

\* n in the given radix, as ASCII digits (usize::to_string, format!("{:x}")).
RECURSIVE ToRadix(_, _)
ToRadix(n, radix) ==
    LET d == n % radix
        c == IF d < 10 THEN 48 + d ELSE 87 + d
    IN  IF n < radix THEN <<c>> ELSE ToRadix(n \div radix, radix) \o <<c>>

\* One chunk of a chunked body carrying `data`.
Chunk(data) == Line(ToRadix(Len(data), 16)) \o data \o CRLF

RECURSIVE Repeat(_, _)
Repeat(str, k) == IF k = 0 THEN <<>> ELSE str \o Repeat(str, k - 1)

STR_GET_line == <<71, 69, 84, 32, 47, 32, 72, 84, 84, 80, 47, 49, 46, 49>>
STR_POST_line == <<80, 79, 83, 84, 32, 47, 112, 32, 72, 84, 84, 80, 47, 49, 46, 48>>
STR_PUT_line == <<80, 85, 84, 32, 47, 99, 32, 72, 84, 84, 80, 47, 49, 46, 49>>
STR_a_b == <<97, 58, 32, 98>>

\* "name: value"
HeaderLine(name, value) == Line(name \o <<COLON, SP>> \o value)

\* POST /p HTTP/1.0 with Content-Length: n and a body of n bytes.
RequestWithContentLength(n) ==
    Line(STR_POST_line) \o HeaderLine(<<67>> \o Tail(CONTENT_LENGTH), ToRadix(n, 10))
        \o CRLF \o DataBytes(n)

\* GET /aa...a HTTP/1.1 and an empty line; the first line has n bytes, its
\* CRLF included.
RequestOfLineSize(n) ==
    Line(SubSeq(STR_GET_line, 1, 5)
            \o Repeat(<<97>>, n - Len(STR_GET_line) - Len(CRLF))
            \o SubSeq(STR_GET_line, 6, 14)) \o CRLF

\* Requests, good and bad, some followed by the start of another.
RequestInputs == {
    \* a first line of exactly MAX_LINE_SIZE bytes, and of one byte more
    RequestOfLineSize(MAX_LINE_SIZE),
    RequestOfLineSize(MAX_LINE_SIZE + 1),
    <<255>> \o RequestOfLineSize(MAX_LINE_SIZE),
    \* a body of exactly MAX_BODY_SIZE bytes, and one byte more
    RequestWithContentLength(MAX_BODY_SIZE),
    RequestWithContentLength(MAX_BODY_SIZE + 1),
    \* GET / HTTP/1.1
    Line(STR_GET_line) \o CRLF,
    \* GET with connection: close, then a second request
    Line(STR_GET_line) \o HeaderLine(CONNECTION, STR_close) \o CRLF
        \o Line(STR_GET_line) \o CRLF,
    \* POST /p HTTP/1.0 with Content-Length: 3, body abc, then "GET"
    RequestWithContentLength(3) \o <<71, 69, 84>>,
    \* PUT /c HTTP/1.1 with a chunked body of two chunks
    Line(STR_PUT_line) \o HeaderLine(TRANSFER_ENCODING, STR_chunked) \o CRLF
        \o Chunk(DataBytes(2)) \o Chunk(<<121>>) \o Chunk(<<>>),
    \* GET /     (no version)
    Line(<<71, 69, 84, 32, 47>>) \o CRLF,
    \* FOO / HTTP/1.1
    Line(<<70, 79, 79>> \o SubSeq(STR_GET_line, 4, 14)) \o CRLF,
    \* GET / HTTP/2
    Line(SubSeq(STR_GET_line, 1, 11) \o <<50>>) \o CRLF,
    \* GET / HTTP/1.1 ended by a bare \n
    STR_GET_line \o <<LF>> \o CRLF,
    \* GET /e' HTTP/1.1 with the two-byte char U+00E9 in the uri
    Line(<<71, 69, 84, 32, 47, 195, 169>> \o SubSeq(STR_GET_line, 6, 14)) \o CRLF,
    \* a stray byte 0xFF, then GET / HTTP/1.1
    <<255>> \o Line(STR_GET_line) \o CRLF,
    \* a header line without ": "
    Line(STR_GET_line) \o Line(<<97, 98>>) \o CRLF
}

\* Header blocks of k lines "a: b" for the headers parser alone.
HeaderInputs ==
    {Repeat(Line(STR_a_b), k) \o CRLF :
        k \in {1, (MAX_HEADERS_SIZE \div 6) - 1, (MAX_HEADERS_SIZE \div 6) + 2}}
    \cup
    \* a header line of MAX_LINE_SIZE bytes, then short ones
    {Line(<<97, COLON, SP>> \o DataBytes(MAX_LINE_SIZE - 5))
        \o Repeat(Line(STR_a_b), 6) \o CRLF}

\* Bodies for the body parser alone: the header map it is built from, the
\* read_if_no_content_length flag and the stream.
BodyCases ==
    {[headers |-> <<<<CONTENT_LENGTH, ToRadix(n, 10)>>>>, flag |-> FALSE,
      input |-> DataBytes(n + 2)] :
        n \in {0, 3, MAX_BODY_SIZE \div 2, (MAX_BODY_SIZE \div 2) + 1,
               MAX_BODY_SIZE, MAX_BODY_SIZE + 1}}
    \cup
    {[headers |-> <<<<TRANSFER_ENCODING, STR_chunked>>>>, flag |-> FALSE, input |-> i] :
        i \in {Chunk(DataBytes(2)) \o Chunk(<<121>>) \o Chunk(<<>>) \o <<71>>,
               Chunk(DataBytes(2)) \o Chunk(DataBytes(MAX_BODY_SIZE - 1))
                   \o Chunk(<<>>),
               Chunk(DataBytes(MAX_BODY_SIZE)) \o Chunk(<<>>),
               <<255>> \o Chunk(DataBytes(2)) \o Chunk(<<>>),
               \* chunks whose data is longer or shorter than declared
               Line(ToRadix(3, 16)) \o DataBytes(4) \o CRLF,
               Line(ToRadix(3, 16)) \o DataBytes(2) \o CRLF \o Chunk(<<>>),
               Line(ToRadix(3, 16)) \o DataBytes(3) \o <<255>> \o CRLF
                   \o Chunk(<<>>)}}
    \cup
    {[headers |-> <<>>, flag |-> TRUE, input |-> DataBytes(n)] :
        n \in {2, MAX_BODY_SIZE - 1, MAX_BODY_SIZE + 1}}

\* The harness starts with a new parser and nothing arrived.
ParseStart(mode, p0, input) ==
    /\ pmode = mode /\ pin = input /\ pparser = p0
    /\ pavail = 0 /\ ptail = "WouldBlock" /\ ppos = 0
    /\ pres = [st |-> "none"] /\ psuspended = FALSE

ParseInit ==
    /\ w = with_capacity(WriterCap) /\ written = <<>> /\ wfailed = FALSE
    /\ wlast = <<>>
    /\ ServerIdle
    /\ UtilIdle
    /\ overflow_checks \in BOOLEAN
    /\ \/ \E i \in RequestInputs : ParseStart("request", RequestParser_new, i)
       \/ \E i \in HeaderInputs : ParseStart("headers", HeadersParser_new, i)
       \/ \E c \in BodyCases :
            LET b == BodyParser_new(c.headers, c.flag) IN
            /\ pmode = "body" /\ pin = c.input /\ pparser = b.parser
            /\ pavail = 0 /\ ptail = "WouldBlock" /\ ppos = 0
            /\ pres = IF b.ok THEN [st |-> "none"]
                      ELSE [st |-> "err", val |-> <<>>, err |-> b.err,
                            sizes |-> <<>>, path |-> <<>>]
            /\ psuspended = FALSE

\* One parse call of the parser under test.
ParseCall(mode, p, data, tail, chk) ==
    IF mode = "request" THEN RequestParser_parse(p, data, tail, chk)
    ELSE IF mode = "headers" THEN HeadersParser_parse(p, data, tail, chk)
    ELSE BodyParser_parse(p, data, tail, chk)

\* The result of a parse call without what it left in the stream.
Outcome(r) == [st |-> r.st, val |-> IF r.st = "done" THEN r.val ELSE <<>>,
               err |-> r.err, sizes |-> r.sizes, path |-> r.path]

\* More bytes arrive.
PFeed ==
    /\ pres.st = "none" /\ ptail = "WouldBlock"
    /\ \E k \in 1..(Len(pin) - pavail) : pavail' = pavail + k
    /\ UNCHANGED <<wvars, svars, uvars, pmode, pin, ptail, ppos, pparser, pres, psuspended,
                   overflow_checks>>

\* The peer closes the stream: nothing arrives after what has arrived.
PClose ==
    /\ pres.st = "none" /\ ptail = "WouldBlock"
    /\ ptail' = "eof"
    /\ pin' = Take(pin, pavail)
    /\ UNCHANGED <<wvars, svars, uvars, pmode, pavail, ppos, pparser, pres, psuspended,
                   overflow_checks>>

\* parser.parse(&mut reader)
PParse ==
    /\ pres.st = "none"
    /\ \E r \in {ParseCall(pmode, pparser, SubSeq(pin, ppos + 1, pavail), ptail,
                             overflow_checks)} :
           /\ ppos' = pavail - Len(r.rest)
           /\ IF r.st = "io" /\ r.err = "WouldBlock"
              THEN /\ pparser' = r.val
                   /\ psuspended' = TRUE
                   /\ UNCHANGED pres
              ELSE /\ pparser' = IF r.st = "io" THEN r.val ELSE pparser
                   /\ pres' = Outcome(r)
                   /\ UNCHANGED psuspended
    /\ UNCHANGED <<wvars, svars, uvars, pmode, pin, pavail, ptail, overflow_checks>>

ParseNext == PFeed \/ PClose \/ PParse

SpecParse == ParseInit /\ [][ParseNext]_vars

-----------------------------------------------------------------------------
(* The server driver (src/server/server.rs, connection.rs) for one          *)
(* connection: readiness events queue jobs on the thread pool, and each job *)
(* runs handle_io_ready_connection under the connection's mutex.           *)

\* Size of connection write buffers.
WRITE_BUF_SIZE == 32
\* Worker threads of the thread pool.
NumWorkers == 2
\* Readiness events the poll loop delivers for the connection.
MaxEvents == 3
\* The client's bytes reach the socket in pieces ending at multiples of this.
ArrivalStep == 5

Workers == 1..NumWorkers

REQUEST_PARSING_ERROR_RESPONSE ==
    <<72, 84, 84, 80, 47, 49, 46, 49, 32, 52, 48, 48, 32, 66, 97, 100, 32, 82, 101,
      113, 117, 101, 115, 116, 13, 10, 13, 10>>
NOT_FOUND_RESPONSE ==
    <<72, 84, 84, 80, 47, 49, 46, 49, 32, 52, 48, 52, 32, 78, 111, 116, 32, 70, 111,
      117, 110, 100, 13, 10, 13, 10>>

\* status::OK
STATUS_OK == [code |-> <<50, 48, 48>>, reason |-> <<79, 75>>]

\* The courses of a socket write the model follows: everything accepted,
\* WouldBlock or an error at once, WouldBlock after one byte.
SocketCourses(len) ==
    {r \in Outcomes(len) : r.kind = "ok" \/ r.n = 0 \/ (r.kind = "block" /\ r.n = 1)}

\* The results of writer.write(data) over the courses of the socket.
write_results(wr, data) ==
    {write(wr, data, r1, r2) :
        r1 \in SocketCourses(Len(Pending(wr))), r2 \in SocketCourses(Len(data))}

\* The results of writer.flush() over the courses of the socket.
flush_results(wr) ==
    {flush(wr, r1, fl) : r1 \in SocketCourses(Len(Pending(wr))),
                         fl \in {"ok", "block", "err"}}

\* A sequence of write calls (each write!, write_all or write with `?`), up
\* to the first Err: the writer, whether all returned Ok, and the bytes
\* passed to write.
RECURSIVE write_each(_, _)
write_each(st, pieces) ==
    IF pieces = <<>> \/ ~st.ok THEN {st}
    ELSE UNION {write_each([w |-> r.w, ok |-> r.ok,
                            handed |-> st.handed \o pieces[1]], Tail(pieces)) :
                    r \in write_results(st.w, pieces[1])}

\* ... followed by writer.flush() if they all returned Ok.
then_flush(sts) ==
    UNION {IF ~st.ok THEN {st}
           ELSE {[st EXCEPT !.w = f.w, !.ok = f.ok] : f \in flush_results(st.w)} :
              st \in sts}

\* The slices write_response passes to the writer: the parts of each write!
\* and the two write calls.
response_pieces(response) ==
    LET header_pieces[i \in 0..Len(response.headers)] ==
            IF i = 0 THEN <<>>
            ELSE header_pieces[i - 1]
                     \o <<response.headers[i][1], <<COLON, SP>>,
                          response.headers[i][2], CRLF>>
    IN  <<HTTP_VERSION_1_1, <<SP>>, response.status.code, <<SP>>,
          response.status.reason, CRLF>>
            \o header_pieces[Len(response.headers)]
            \o <<CRLF, response.body>>

\* write_response
write_response(wr, response) ==
    then_flush(write_each([w |-> wr, ok |-> TRUE, handed |-> <<>>],
                          response_pieces(response)))

\* The bytes of a response on the wire.
RECURSIVE Concat(_)
Concat(seqs) == IF seqs = <<>> THEN <<>> ELSE seqs[1] \o Concat(Tail(seqs))

\* str::starts_with
StartsWith(str, prefix) == Take(str, Len(prefix)) = prefix

\* ListenerResult::Next
ListenerNext == [kind |-> "Next"]

\* A listener closure passed to on or on_prefix by the application: calls of
\* it are told apart by id, and it returns the same result on every call.
Listener(id, result) == [kind |-> "fn", id |-> id, result |-> result]

\* A call of such a listener: its result, and the record of the call with
\* the arguments it got.
call_listener(listener, router_uri, request) ==
    [result |-> listener.result,
     calls |-> <<[id |-> listener.id, uri |-> router_uri, request |-> request]>>]

\* Router::new
Router_new == <<>>

\* Router::on_prefix
on_prefix(router, uri, listener) ==
    Append(router, [prefix |-> uri, listener |-> listener])

\* Router::on: the closure keeps uri_string and the listener.
on(router, uri, listener) ==
    on_prefix(router, <<>>,
              [kind |-> "on", uri_string |-> uri, listener |-> listener])

\* Router::route: the closure keeps uri_length and the router.
route(router, uri, sub_router) ==
    on_prefix(router, uri,
              [kind |-> "route", uri_length |-> Len(uri), router |-> sub_router])

\* A faulty closure of Router::on that answers every uri its own uri starts.
on_closure_starts_with(closure, router_uri, request) ==
    IF StartsWith(router_uri, closure.uri_string)
    THEN call_listener(closure.listener, router_uri, request)
    ELSE [result |-> ListenerNext, calls |-> <<>>]

\* The closure Router::on registers.
on_closure(closure, router_uri, request) ==
    IF closure.uri_string = router_uri
    THEN call_listener(closure.listener, router_uri, request)
    ELSE [result |-> ListenerNext, calls |-> <<>>]

RECURSIVE result_internal(_, _, _)

\* A faulty closure of Router::route that passes the uri on as it got it.
route_closure_whole_uri(closure, request_uri, request) ==
    result_internal(closure.router, request_uri, request)

\* The closure Router::route registers.
route_closure(closure, request_uri, request) ==
    result_internal(closure.router, Drop(request_uri, closure.uri_length), request)

\* A call of a boxed listener of Router.listeners.
call_boxed(listener, request_uri, request) ==
    IF listener.kind = "fn" THEN call_listener(listener, request_uri, request)
    ELSE IF listener.kind = "on" THEN on_closure(listener, request_uri, request)
    ELSE route_closure(listener, request_uri, request)

\* A faulty filter of result_internal that lets every listener through.
filter_listener_any(entry, request_uri) == TRUE

\* The filter of result_internal.
filter_listener(entry, request_uri) == StartsWith(request_uri, entry.prefix)

\* The lazy iterator chain of result_internal from the i-th listener on:
\* listeners are called one by one until a result is not Next.
RECURSIVE find_result(_, _, _, _)
find_result(listeners, i, request_uri, request) ==
    IF i > Len(listeners) THEN [result |-> ListenerNext, calls |-> <<>>]
    ELSE IF ~filter_listener(listeners[i], request_uri)
    THEN find_result(listeners, i + 1, request_uri, request)
    ELSE Bind(call_boxed(listeners[i].listener, request_uri, request), LAMBDA r :
         IF r.result # ListenerNext THEN r
         ELSE Bind(find_result(listeners, i + 1, request_uri, request), LAMBDA t :
              [result |-> t.result, calls |-> r.calls \o t.calls]))

\* Router::result_internal
result_internal(listeners, request_uri, request) ==
    find_result(listeners, 1, request_uri, request)

\* Router::result
Router_result(router, request) == result_internal(router, request.uri, request)

\* The router of the model's server:
\*   on("/",  |_, _| SendResponse("hi".into()))       (without headers)
\*   on("/p", |_, _| SendResponseArc(a body of WRITE_BUF_SIZE + 1 bytes))
Listeners ==
    on(on(Router_new, <<47>>,
          Listener(1, [kind |-> "SendResponse",
                       response |-> [status |-> STATUS_OK, headers |-> <<>>,
                                     body |-> <<104, 105>>]])),
       <<47, 112>>,
       Listener(2, [kind |-> "SendResponseArc",
                    response |-> [status |-> STATUS_OK, headers |-> <<>>,
                                  body |-> DataBytes(WRITE_BUF_SIZE + 1)]]))

\* write_response_from_router
write_response_from_router(wr, request) ==
    LET res == Router_result(Listeners, request).result IN
    IF res.kind = "Next"
    THEN then_flush(write_each([w |-> wr, ok |-> TRUE, handed |-> <<>>],
                               <<NOT_FOUND_RESPONSE>>))
    ELSE write_response(wr, res.response)

\* write_error_response
write_error_response(wr) ==
    then_flush(write_each([w |-> wr, ok |-> TRUE, handed |-> <<>>],
                          <<REQUEST_PARSING_ERROR_RESPONSE>>))

\* A faulty should_close_after_response that keeps every connection alive.
should_close_after_response_never(request) == FALSE

\* should_close_after_response
should_close_after_response(request) ==
    contains_header_value(request.headers, CONNECTION, STR_close)

\* is_closed
is_closed(parser, error) ==
    (error = "UnexpectedEof" /\ ~has_data(parser)) \/ error = "ConnectionAborted"

\* A faulty Connection::read_request that does not put the suspended
\* parser back into self.parser.
read_request_forgetful(parser_option, data, tail, checks) ==
    Bind(RequestParser_parse(IF parser_option = <<>> THEN RequestParser_new
                             ELSE parser_option[1], data, tail, checks), LAMBDA r :
        LET res(kind) == [kind |-> kind, request |-> <<>>, parser |-> <<>>,
                          rest |-> r.rest]
        IN  IF r.st = "done" THEN [res("Ready") EXCEPT !.request = r.val]
            ELSE IF r.st = "io" /\ r.err = "WouldBlock" THEN res("NotReady")
            ELSE IF r.st = "io" /\ is_closed(r.val, r.err) THEN res("Closed")
            ELSE IF r.st = "io" THEN res("IoErr")
            ELSE IF r.st = "err" THEN res("ParseErr")
            ELSE res("Panic"))

\* Connection::read_request: the result, the request of Ready, the parser
\* left in the connection and the data left in the stream.
read_request(parser_option, data, tail, checks) ==
    Bind(RequestParser_parse(IF parser_option = <<>> THEN RequestParser_new
                             ELSE parser_option[1], data, tail, checks), LAMBDA r :
        LET res(kind) == [kind |-> kind, request |-> <<>>, parser |-> <<>>,
                          rest |-> r.rest]
        IN  IF r.st = "done" THEN [res("Ready") EXCEPT !.request = r.val]
            ELSE IF r.st = "io" /\ r.err = "WouldBlock"
            THEN [res("NotReady") EXCEPT !.parser = <<r.val>>]
            ELSE IF r.st = "io" /\ is_closed(r.val, r.err) THEN res("Closed")
            ELSE IF r.st = "io" THEN res("IoErr")
            ELSE IF r.st = "err" THEN res("ParseErr")
            ELSE res("Panic"))

\* A faulty respond_to_requests whose Error arm does not return.
respond_to_requests_arm_error_continues(kind, write_ok, request) ==
    IF kind = "Ready"
    THEN IF ~write_ok \/ should_close_after_response(request) THEN "close"
         ELSE "loop"
    ELSE IF kind = "NotReady" THEN "keep"
    ELSE IF kind \in {"IoErr", "ParseErr"} THEN "loop"
    ELSE "close"

\* A faulty match of respond_to_requests that returns false when the peer
\* has closed, so that the connection is put back.
respond_to_requests_arm_keeps_closed(kind, write_ok, request) ==
    IF kind = "Ready"
    THEN IF ~write_ok \/ should_close_after_response(request) THEN "close"
         ELSE "loop"
    ELSE IF kind \in {"NotReady", "Closed"} THEN "keep"
    ELSE "close"

\* What the match of respond_to_requests does after the arm of a result:
\* "loop" to read the next request, "keep" for return false, "close" for
\* return true.
respond_to_requests_arm(kind, write_ok, request) ==
    IF kind = "Ready"
    THEN IF ~write_ok \/ should_close_after_response(request) THEN "close"
         ELSE "loop"
    ELSE IF kind = "NotReady" THEN "keep"
    ELSE "close"

\* What the arm of a result writes: the router's response, the error
\* response, or nothing.
arm_writes(wr, result) ==
    IF result.kind = "Ready" THEN write_response_from_router(wr, result.request)
    ELSE IF result.kind \in {"IoErr", "ParseErr"} THEN write_error_response(wr)
    ELSE {[w |-> wr, ok |-> TRUE, handed |-> <<>>]}

\* GET / with connection: close
GetWithClose == Line(STR_GET_line) \o HeaderLine(CONNECTION, STR_close) \o CRLF

\* GET / with connection: close, then GET /
CloseThenGet == GetWithClose \o Line(STR_GET_line) \o CRLF

\* GET / without a version, then GET /
BadThenGet == Line(<<71, 69, 84, 32, 47>>) \o CRLF \o Line(STR_GET_line) \o CRLF

\* POST /p with a body of 3 bytes, GET / with Content-Length: 0, and the
\* first byte of a third request (after two_requests_with_bodies)
RequestsWithBodies ==
    RequestWithContentLength(3)
        \o Line(STR_GET_line) \o HeaderLine(CONTENT_LENGTH, ToRadix(0, 10)) \o CRLF
        \o <<71>>

\* What the clients of the model send on the connection.
ClientInputs == {
    RequestsWithBodies,
    \* GET /, then GET /c (which no listener answers)
    Line(STR_GET_line) \o CRLF
        \o Line(<<71, 69, 84, 32, 47, 99>> \o SubSeq(STR_GET_line, 6, 14)) \o CRLF,
    CloseThenGet,
    BadThenGet,
    \* GET /, then FOO / HTTP/1.1, then GET /
    Line(STR_GET_line) \o CRLF
        \o Line(<<70, 79, 79>> \o SubSeq(STR_GET_line, 4, 14)) \o CRLF
        \o Line(STR_GET_line) \o CRLF,
    \* POST /p with Content-Length: 3 and body abc (answered with the large body)
    RequestWithContentLength(3),
    \* a byte that is not UTF-8, then GET /
    <<255>> \o Line(STR_GET_line) \o CRLF
}

\* on_new_connection: Connection::new on a new buffered stream, in its cell.
ServerInit ==
    /\ w = with_capacity(WriterCap) /\ written = <<>> /\ wfailed = FALSE
    /\ wlast = <<>>
    /\ ParseIdle
    /\ UtilIdle
    /\ overflow_checks \in BOOLEAN
    /\ sin \in ClientInputs
    /\ savail = 0 /\ sclosed = FALSE /\ rpos = 0 /\ rstart = 0
    /\ cell = "Some"
    /\ conn = [parser |-> <<RequestParser_new>>, w |-> with_capacity(WRITE_BUF_SIZE)]
    /\ lock = 0 /\ queue = 0 /\ events = 0
    /\ pc = [wk \in Workers |-> "idle"]
    /\ read_log = <<>> /\ routed = <<>> /\ handed = <<>> /\ dropped = <<>>

\* The variables of the harnesses.
hvars == <<wvars, pvars, uvars>>

\* More of the client's bytes reach the socket.
ClientSend ==
    /\ ~sclosed /\ savail < Len(sin)
    /\ \E n \in (savail + 1)..Len(sin) :
          /\ n = Len(sin) \/ n % ArrivalStep = 0
          /\ savail' = n
    /\ UNCHANGED <<hvars, sin, sclosed, rpos, rstart, cell, conn, lock, queue, events, pc,
                   read_log, routed, handed, dropped>>

\* The client closes its side: nothing arrives after what has arrived.
ClientClose ==
    /\ ~sclosed
    /\ sclosed' = TRUE
    /\ sin' = Take(sin, savail)
    /\ UNCHANGED <<hvars, savail, rpos, rstart, cell, conn, lock, queue, events, pc,
                   read_log, routed, handed, dropped>>

\* The poll loop gets a readiness event for the connection's token:
\* on_io_ready hands a job to the thread pool.
OnIoReady ==
    /\ events < MaxEvents
    /\ events' = events + 1
    /\ queue' = queue + 1
    /\ UNCHANGED <<hvars, sin, savail, sclosed, rpos, rstart, cell, conn, lock, pc,
                   read_log, routed, handed, dropped>>

\* A worker thread takes a job off the queue and calls
\* handle_io_ready_connection, which starts by waiting for the mutex.
JobDequeue(wk) ==
    /\ pc[wk] = "idle" /\ queue > 0
    /\ queue' = queue - 1
    /\ pc' = [pc EXCEPT ![wk] = "waiting"]
    /\ UNCHANGED <<hvars, sin, savail, sclosed, rpos, rstart, cell, conn, lock, events,
                   read_log, routed, handed, dropped>>

\* A faulty start of handle_io_ready_connection that neither waits for the
\* mutex nor takes the connection out of its cell.
JobStart_shared(wk) ==
    /\ pc[wk] = "waiting"
    /\ IF cell = "None"
       THEN /\ pc' = [pc EXCEPT ![wk] = "idle"]
            /\ UNCHANGED <<cell, conn, lock, dropped, wlast>>
       ELSE \E f \in flush_results(conn.w) :
              /\ conn' = [conn EXCEPT !.w = f.w]
              /\ wlast' = <<[ok |-> f.ok]>>
              /\ IF f.ok
                 THEN /\ lock' = wk
                      /\ pc' = [pc EXCEPT ![wk] = "running"]
                      /\ UNCHANGED <<cell, dropped>>
                 ELSE /\ dropped' = <<[kind |-> "Flush", write_ok |-> FALSE]>>
                      /\ cell' = "None"
                      /\ pc' = [pc EXCEPT ![wk] = "idle"]
                      /\ UNCHANGED lock
    /\ UNCHANGED <<w, written, wfailed, pvars, uvars, sin, savail, sclosed, rpos,
                   rstart, queue, events, read_log, routed, handed>>

\* A faulty handle_io_ready_connection that goes on to respond_to_requests
\* whatever connection.flush() returned.
handle_flush_ignored(flush_ok) == "respond"

\* handle_io_ready_connection after connection.flush(): return if it is an
\* Err, call respond_to_requests otherwise.
handle_flush(flush_ok) == IF flush_ok THEN "respond" ELSE "return"

\* A faulty start of handle_io_ready_connection that uses try_lock and
\* returns when another job holds the mutex.
JobStart_try_lock(wk) ==
    /\ pc[wk] = "waiting" /\ lock >= 0
    /\ IF cell = "None" \/ lock # 0
       THEN /\ pc' = [pc EXCEPT ![wk] = "idle"]
            /\ UNCHANGED <<cell, conn, lock, dropped, wlast>>
       ELSE \E f \in flush_results(conn.w) :
              /\ cell' = "None"
              /\ conn' = [conn EXCEPT !.w = f.w]
              /\ wlast' = <<[ok |-> f.ok]>>
              /\ IF f.ok
                 THEN /\ lock' = wk
                      /\ pc' = [pc EXCEPT ![wk] = "running"]
                      /\ UNCHANGED dropped
                 ELSE /\ dropped' = <<[kind |-> "Flush", write_ok |-> FALSE]>>
                      /\ pc' = [pc EXCEPT ![wk] = "idle"]
                      /\ UNCHANGED lock
    /\ UNCHANGED <<w, written, wfailed, pvars, uvars, sin, savail, sclosed, rpos,
                   rstart, queue, events, read_log, routed, handed>>

\* handle_io_ready_connection up to the call of respond_to_requests: lock,
\* take the connection out of its cell, flush.  The job ends here if the
\* cell is empty or the flush fails (the connection is dropped).
JobStart(wk) ==
    /\ pc[wk] = "waiting" /\ lock = 0
    /\ IF cell = "None"
       THEN /\ pc' = [pc EXCEPT ![wk] = "idle"]
            /\ UNCHANGED <<cell, conn, lock, dropped, wlast>>
       ELSE \E f \in flush_results(conn.w) :
              /\ cell' = "None"
              /\ conn' = [conn EXCEPT !.w = f.w]
              /\ wlast' = <<[ok |-> f.ok]>>
              /\ IF handle_flush(f.ok) = "respond"
                 THEN /\ lock' = wk
                      /\ pc' = [pc EXCEPT ![wk] = "running"]
                      /\ UNCHANGED dropped
                 ELSE /\ dropped' = <<[kind |-> "Flush", write_ok |-> FALSE]>>
                      /\ pc' = [pc EXCEPT ![wk] = "idle"]
                      /\ UNCHANGED lock
    /\ UNCHANGED <<w, written, wfailed, pvars, uvars, sin, savail, sclosed, rpos,
                   rstart, queue, events, read_log, routed, handed>>

\* One turn of the loop of respond_to_requests, and the rest of
\* handle_io_ready_connection when the loop returns.
JobRespond(wk) ==
    /\ pc[wk] = "running"
    /\ \E result \in {read_request(conn.parser, SubSeq(sin, rpos + 1, savail),
                                   IF sclosed THEN "eof" ELSE "WouldBlock",
                                   overflow_checks)} :
       \E out \in arm_writes(conn.w, result) :
       \E next \in {respond_to_requests_arm(result.kind, out.ok, result.request)} :
          /\ rpos' = savail - Len(result.rest)
          /\ rstart' = IF result.kind = "Ready" THEN savail - Len(result.rest)
                        ELSE rstart
          /\ read_log' = Append(read_log, result.kind)
          /\ routed' = IF result.kind = "Ready"
                       THEN Append(routed, result.request.uri) ELSE routed
          /\ handed' = handed \o out.handed
          /\ conn' = [parser |-> result.parser, w |-> out.w]
          /\ wlast' = <<[ok |-> out.ok]>>
          /\ IF result.kind = "Panic"
             THEN \* the thread unwinds: the connection is dropped, the mutex poisoned
                  /\ dropped' = <<[kind |-> "Panic", write_ok |-> TRUE]>>
                  /\ lock' = -1
                  /\ pc' = [pc EXCEPT ![wk] = "dead"]
                  /\ UNCHANGED cell
             ELSE IF next = "loop"
             THEN UNCHANGED <<cell, lock, pc, dropped>>
             ELSE /\ lock' = 0
                  /\ pc' = [pc EXCEPT ![wk] = "idle"]
                  /\ IF next = "keep"
                     THEN cell' = "Some" /\ UNCHANGED dropped
                     ELSE /\ dropped' = <<[kind |-> result.kind, write_ok |-> out.ok]>>
                          /\ UNCHANGED cell
    /\ UNCHANGED <<w, written, wfailed, pvars, uvars, sin, savail, sclosed, queue,
                   events>>

ServerNext ==
    \/ ClientSend
    \/ ClientClose
    \/ OnIoReady
    \/ \E wk \in Workers : JobDequeue(wk) \/ JobStart(wk) \/ JobRespond(wk)

SpecServer == ServerInit /\ [][ServerNext]_vars

\* The worker threads keep running: a worker that can take a job off the
\* queue eventually does, and a job that can take the mutex eventually
\* does.  Nothing is assumed of the client or of the events.
SpecServerFair ==
    /\ SpecServer
    /\ \A wk \in Workers : WF_vars(JobDequeue(wk)) /\ WF_vars(JobStart(wk))

-----------------------------------------------------------------------------
(* Router harness (src/server/router.rs): the application builds a router  *)
(* with on, on_prefix and route, sub-routers first, and then routes         *)
(* requests through it.                                                    *)

\* Listeners the application registers in all, with on, on_prefix and route.
MaxListeners == 4
\* Routers under construction at a time: a router, a sub-router of it, ...
MaxRouters == 3

STR_a == <<47, 97>>
STR_b == <<47, 98>>

\* The uris the application registers listeners and sub-routers under.
RegisteredUris == {<<>>, STR_a, STR_b}

\* The uris of the requests: one to three segments, and one that begins
\* like /a without having it as a segment.
RequestUris ==
    {STR_a, STR_b, STR_a \o STR_b, STR_b \o STR_a, STR_a \o STR_b \o STR_a,
     STR_a \o <<98>>}

\* What the listeners of the harness return: Next, or a response that names
\* the listener in its body.
ListenerResults(id) ==
    {ListenerNext,
     [kind |-> "SendResponse",
      response |-> [status |-> STATUS_OK, headers |-> <<>>, body |-> <<id>>]]}

\* The innermost router under construction.
TopRouter == routers[Len(routers)]

RouterInit ==
    /\ w = with_capacity(WriterCap) /\ written = <<>> /\ wfailed = FALSE
    /\ wlast = <<>>
    /\ ParseIdle /\ ServerIdle
    /\ overflow_checks = FALSE
    /\ routers = <<Router_new>> /\ listeners_made = 0 /\ rres = <<>>
    /\ slab = <<>> /\ freed = <<>> /\ slast = <<>>
    /\ take = <<>> /\ pool = <<>> /\ poll = <<>>

\* let mut sub_router = Router::new();
RouterNew ==
    /\ rres = <<>> /\ Len(routers) < MaxRouters
    /\ routers' = Append(routers, Router_new)
    /\ UNCHANGED <<wvars, pvars, svars, tvars, listeners_made, rres, slab, freed, slast>>

\* router.on_prefix(uri, listener)
RouterOnPrefix ==
    /\ rres = <<>> /\ listeners_made < MaxListeners
    /\ \E uri \in RegisteredUris, res \in ListenerResults(listeners_made + 1) :
          routers' = [routers EXCEPT ![Len(routers)] =
                         on_prefix(TopRouter, uri, Listener(listeners_made + 1, res))]
    /\ listeners_made' = listeners_made + 1
    /\ UNCHANGED <<wvars, pvars, svars, tvars, rres, slab, freed, slast>>

\* router.on(uri, listener)
RouterOn ==
    /\ rres = <<>> /\ listeners_made < MaxListeners
    /\ \E uri \in RegisteredUris, res \in ListenerResults(listeners_made + 1) :
          routers' = [routers EXCEPT ![Len(routers)] =
                         on(TopRouter, uri, Listener(listeners_made + 1, res))]
    /\ listeners_made' = listeners_made + 1
    /\ UNCHANGED <<wvars, pvars, svars, tvars, rres, slab, freed, slast>>

\* router.route(uri, sub_router): the sub-router moves into its parent.
RouterRoute ==
    /\ rres = <<>> /\ Len(routers) > 1 /\ listeners_made < MaxListeners
    /\ \E uri \in RegisteredUris :
          routers' = [Front(routers) EXCEPT ![Len(routers) - 1] =
                         route(routers[Len(routers) - 1], uri, TopRouter)]
    /\ listeners_made' = listeners_made + 1
    /\ UNCHANGED <<wvars, pvars, svars, tvars, rres, slab, freed, slast>>

\* router.result(&request) on the finished router
RouterResult ==
    /\ Len(routers) = 1
    /\ \E uri \in RequestUris :
       \E r \in {Router_result(routers[1], [uri |-> uri])} :
          rres' = <<[uri |-> uri, result |-> r.result, calls |-> r.calls]>>
    /\ UNCHANGED <<wvars, pvars, svars, tvars, routers, listeners_made, slab, freed, slast>>

RouterNext == RouterNew \/ RouterOnPrefix \/ RouterOn \/ RouterRoute \/ RouterResult

SpecRouter == RouterInit /\ [][RouterNext]_vars

-----------------------------------------------------------------------------
(* Slab (src/server/slab.rs).  An Option is <<>> for None and <<x>> for     *)
(* Some(x); keys count from 0.                                             *)

\* Slab::with_capacity
Slab_with_capacity(capacity) == [data |-> <<>>, open_slots |-> <<>>]

\* Vec::get
vec_get(vec, index) == IF index < Len(vec) THEN <<vec[index + 1]>> ELSE <<>>

\* A faulty next_key that previews the other end of the open slots.
next_key_back(self) ==
    IF self.open_slots # <<>> THEN Last(self.open_slots) ELSE Len(self.data)

\* Slab::next_key
next_key(self) ==
    IF self.open_slots # <<>> THEN self.open_slots[1] ELSE Len(self.data)

\* A faulty insert that reads the front of the open slots without popping
\* it.
insert_without_pop(self, inner) ==
    IF self.open_slots # <<>>
    THEN LET index == self.open_slots[1] IN
         IF index < Len(self.data)
         THEN [slab |-> [self EXCEPT !.data[index + 1] = <<inner>>],
               key |-> index, panic |-> FALSE]
         ELSE [slab |-> self, key |-> index, panic |-> TRUE]
    ELSE [slab |-> [self EXCEPT !.data = Append(self.data, <<inner>>)],
          key |-> Len(self.data), panic |-> FALSE]

\* Slab::insert: the slab and the key returned; unwrap panics on an open
\* slot that is not in data.
insert(self, inner) ==
    IF self.open_slots # <<>>
    THEN LET index == self.open_slots[1] IN
         IF index < Len(self.data)
         THEN [slab |-> [data |-> [self.data EXCEPT ![index + 1] = <<inner>>],
                         open_slots |-> Tail(self.open_slots)],
               key |-> index, panic |-> FALSE]
         ELSE [slab |-> [self EXCEPT !.open_slots = Tail(self.open_slots)],
               key |-> index, panic |-> TRUE]
    ELSE [slab |-> [self EXCEPT !.data = Append(self.data, <<inner>>)],
          key |-> Len(self.data), panic |-> FALSE]

\* Slab::get
get(self, key) ==
    IF vec_get(self.data, key) = <<>> THEN <<>> ELSE vec_get(self.data, key)[1]

\* A faulty remove that opens the slot whether or not it holds an element.
remove_unchecked(self, key) ==
    IF vec_get(self.data, key) # <<>>
    THEN [slab |-> [data |-> [self.data EXCEPT ![key + 1] = <<>>],
                    open_slots |-> <<key>> \o self.open_slots],
          ret |-> self.data[key + 1]]
    ELSE [slab |-> self, ret |-> <<>>]

\* Slab::remove: the slab and the Option returned.
remove(self, key) ==
    IF vec_get(self.data, key) # <<>> /\ self.data[key + 1] # <<>>
    THEN [slab |-> [data |-> [self.data EXCEPT ![key + 1] = <<>>],
                    open_slots |-> <<key>> \o self.open_slots],
          ret |-> self.data[key + 1]]
    ELSE [slab |-> self, ret |-> <<>>]

\* Slots the slab of the harness grows to.
MaxSlots == 3

\* The elements the harness inserts.
SlabElements == {97, 98}

\* The keys the harness passes: every slot, and two keys beyond the slots.
SlabKeys == 0..(MaxSlots + 1)

SlabInit ==
    /\ w = with_capacity(WriterCap) /\ written = <<>> /\ wfailed = FALSE
    /\ wlast = <<>>
    /\ ParseIdle /\ ServerIdle
    /\ overflow_checks = FALSE
    /\ routers = <<>> /\ listeners_made = 0 /\ rres = <<>>
    /\ slab = Slab_with_capacity(MaxSlots) /\ freed = <<>> /\ slast = <<>>
    /\ take = <<>> /\ pool = <<>> /\ poll = <<>>

\* The record of a call: the slab, the freed keys and next_key() before it.
SlabCall(op, arg, ret) ==
    <<[op |-> op, arg |-> arg, ret |-> ret, before |-> slab, freed |-> freed,
       preview |-> next_key(slab)]>>

\* slab.next_key()
SlabNextKey ==
    /\ slast' = SlabCall("next_key", <<>>, next_key(slab))
    /\ UNCHANGED <<wvars, pvars, svars, tvars, routers, listeners_made, rres, slab, freed>>

\* slab.insert(inner)
SlabInsert ==
    /\ \E inner \in SlabElements :
       \E r \in {insert(slab, inner)} :
          /\ Len(r.slab.data) <= MaxSlots
          /\ slab' = r.slab
          /\ freed' = SelectSeq(freed, LAMBDA k : k # r.key)
          /\ slast' = SlabCall("insert", inner, IF r.panic THEN "panic" ELSE r.key)
    /\ UNCHANGED <<wvars, pvars, svars, tvars, routers, listeners_made, rres>>

\* slab.get(key)
SlabGet ==
    /\ \E key \in SlabKeys : slast' = SlabCall("get", key, get(slab, key))
    /\ UNCHANGED <<wvars, pvars, svars, tvars, routers, listeners_made, rres, slab, freed>>

\* slab.remove(key)
SlabRemove ==
    /\ \E key \in SlabKeys :
       \E r \in {remove(slab, key)} :
          /\ slab' = r.slab
          /\ freed' = IF r.ret # <<>> THEN Append(freed, key) ELSE freed
          /\ slast' = SlabCall("remove", key, r.ret)
    /\ UNCHANGED <<wvars, pvars, svars, tvars, routers, listeners_made, rres>>

SlabNext == SlabNextKey \/ SlabInsert \/ SlabGet \/ SlabRemove

SpecSlab == SlabInit /\ [][SlabNext]_vars

-----------------------------------------------------------------------------
(* ErrorTake (src/parse/error_take.rs) over a reader of which only the      *)
(* number of bytes it still holds matters.                                  *)

\* largest limit handed to error_take by the reader harness
MaxTake == 3
\* most bytes the inner reader of the reader harness holds
MaxStream == 5
\* largest buffer the reader harness passes to read
MaxReadBuf == 2

\* reader.error_take(limit): ErrorTake::new(self.take(limit)); `rest` is the
\* number of bytes the inner reader still holds.
error_take(rest, limit) == [limit |-> limit, rest |-> rest]

\* A check_limit that never fails: what is left is std's Take.
check_limit_never(limit) == "ok"

\* ErrorTake::check_limit
check_limit(limit) == IF limit = 0 THEN "Other" ELSE "ok"

\* What the inner reader can answer to a read into `max` bytes or to a
\* fill_buf (max = its whole buffer): some bytes, and when it holds none,
\* end of file (Ok(0)) or WouldBlock.
inner_read(rest, max) ==
    IF max = 0 THEN {[res |-> "ok", n |-> 0]}
    ELSE IF rest = 0 THEN {[res |-> "ok", n |-> 0], [res |-> "WouldBlock", n |-> 0]}
    ELSE {[res |-> "ok", n |-> j] : j \in 1..Min(max, rest)}

\* <ErrorTake as Read>::read: check_limit, then Take::read (Ok(0) at limit
\* 0, else a read into buf[..min(len, limit)] that lowers the limit).
ErrorTake_read(t, buflen) ==
    IF check_limit(t.limit) # "ok" THEN {[t |-> t, res |-> "Other", n |-> 0]}
    ELSE IF t.limit = 0 THEN {[t |-> t, res |-> "ok", n |-> 0]}
    ELSE {[t |-> [limit |-> t.limit - r.n, rest |-> t.rest - r.n],
           res |-> r.res, n |-> r.n] : r \in inner_read(t.rest, Min(buflen, t.limit))}

\* <ErrorTake as BufRead>::fill_buf: check_limit, then Take::fill_buf (empty
\* at limit 0, else the inner buffer cut to the limit); n is the length of
\* the slice returned.
ErrorTake_fill_buf(t) ==
    IF check_limit(t.limit) # "ok" THEN {[t |-> t, res |-> "Other", n |-> 0]}
    ELSE IF t.limit = 0 THEN {[t |-> t, res |-> "ok", n |-> 0]}
    ELSE {[t |-> t, res |-> r.res, n |-> Min(r.n, t.limit)] :
              r \in inner_read(t.rest, MaxStream)}

\* <ErrorTake as BufRead>::consume: Take::consume (amt cut to the limit).
ErrorTake_consume(t, amt) ==
    LET a == Min(amt, t.limit) IN
    [limit |-> t.limit - a, rest |-> t.rest - a]

\* let mut reader = reader.error_take(n);
TakeInit ==
    /\ w = with_capacity(WriterCap) /\ written = <<>> /\ wfailed = FALSE
    /\ wlast = <<>>
    /\ ParseIdle /\ ServerIdle
    /\ overflow_checks = FALSE
    /\ routers = <<>> /\ listeners_made = 0 /\ rres = <<>>
    /\ slab = <<>> /\ freed = <<>> /\ slast = <<>>
    /\ pool = <<>> /\ poll = <<>>
    /\ \E n \in 0..MaxTake, rest \in 0..MaxStream :
           take = [n |-> n, t |-> error_take(rest, n), delivered |-> 0,
                   last |-> [op |-> "new", res |-> "ok", n |-> 0, quota |-> n]]

\* reader.read(&mut buf)
TakeRead ==
    /\ \E buflen \in 0..MaxReadBuf : \E r \in ErrorTake_read(take.t, buflen) :
           take' = [take EXCEPT !.t = r.t, !.delivered = @ + r.n,
                                !.last = [op |-> "read", res |-> r.res, n |-> r.n,
                                          quota |-> take.t.limit]]
    /\ UNCHANGED <<wvars, pvars, svars, routers, listeners_made, rres, slab, freed,
                   slast, pool, poll>>

\* reader.fill_buf()
TakeFillBuf ==
    /\ \E r \in ErrorTake_fill_buf(take.t) :
           take' = [take EXCEPT !.t = r.t,
                                !.last = [op |-> "fill_buf", res |-> r.res, n |-> r.n,
                                          quota |-> take.t.limit]]
    /\ UNCHANGED <<wvars, pvars, svars, routers, listeners_made, rres, slab, freed,
                   slast, pool, poll>>

\* reader.consume(amt) with some of the slice fill_buf has just returned
TakeConsume ==
    /\ take.last.op = "fill_buf" /\ take.last.res = "ok"
    /\ \E amt \in 1..take.last.n :
           take' = [take EXCEPT !.t = ErrorTake_consume(take.t, amt),
                                !.delivered = @ + amt,
                                !.last = [op |-> "consume", res |-> "ok", n |-> amt,
                                          quota |-> take.t.limit]]
    /\ UNCHANGED <<wvars, pvars, svars, routers, listeners_made, rres, slab, freed,
                   slast, pool, poll>>

TakeNext == TakeRead \/ TakeFillBuf \/ TakeConsume

SpecTake == TakeInit /\ [][TakeNext]_vars

-----------------------------------------------------------------------------
(* ThreadPool (src/util/thread_pool.rs): the owner's execute calls and its  *)
(* drop, and the loop of every worker thread.                               *)

\* jobs the owner of the pool submits before it drops the pool
MaxJobs == 3

\* The threads of a pool of `size` workers.
PoolWorkers(size) == 1..size

\* ThreadPool::new(size): an empty channel and `size` threads at the top of
\* their loop.  `runs` (who ran which job) and `terms` (the Terminate
\* messages each thread received) are not fields of the source.
ThreadPool_new(size) ==
    [size |-> size, chan |-> <<>>, submitted |-> 0,
     at |-> [wk \in PoolWorkers(size) |-> "recv"],
     runs |-> <<>>,
     terms |-> [wk \in PoolWorkers(size) |-> 0],
     phase |-> "open", sent |-> 0, joined |-> 0]

\* A worker that goes on receiving after a Terminate message.
worker_match_deaf(message) ==
    IF message.kind = "NewJob" THEN "job" ELSE "recv"

\* The match of the worker's loop: where the thread is after the message.
worker_match(message) ==
    IF message.kind = "NewJob" THEN "job" ELSE "returned"

PoolInit ==
    /\ w = with_capacity(WriterCap) /\ written = <<>> /\ wfailed = FALSE
    /\ wlast = <<>>
    /\ ParseIdle /\ ServerIdle
    /\ overflow_checks = FALSE
    /\ routers = <<>> /\ listeners_made = 0 /\ rres = <<>>
    /\ slab = <<>> /\ freed = <<>> /\ slast = <<>>
    /\ take = <<>> /\ poll = <<>>
    /\ pool = ThreadPool_new(NumWorkers)

\* pool.execute(job): sender.send(Message::NewJob(job))
PoolExecute ==
    /\ pool.phase = "open" /\ pool.submitted < MaxJobs
    /\ pool' = [pool EXCEPT !.submitted = @ + 1,
                            !.chan = Append(@, [kind |-> "NewJob",
                                                job |-> pool.submitted + 1])]
    /\ UNCHANGED <<wvars, pvars, svars, routers, listeners_made, rres, slab, freed,
                   slast, take, poll>>

\* drop, first loop: one sender.send(Message::Terminate) per worker
PoolDropSend ==
    /\ pool.phase \in {"open", "sending"}
    /\ pool' = [pool EXCEPT !.sent = @ + 1,
                            !.chan = Append(@, [kind |-> "Terminate", job |-> 0]),
                            !.phase = IF pool.sent + 1 = pool.size
                                      THEN "joining" ELSE "sending"]
    /\ UNCHANGED <<wvars, pvars, svars, routers, listeners_made, rres, slab, freed,
                   slast, take, poll>>

\* drop, second loop: thread.join() of the next worker returns once that
\* thread has returned
PoolJoin ==
    /\ pool.phase = "joining"
    /\ pool.at[pool.joined + 1] = "returned"
    /\ pool' = [pool EXCEPT !.joined = @ + 1,
                            !.phase = IF pool.joined + 1 = pool.size
                                      THEN "dropped" ELSE "joining"]
    /\ UNCHANGED <<wvars, pvars, svars, routers, listeners_made, rres, slab, freed,
                   slast, take, poll>>

\* receiver.lock().unwrap().recv().unwrap() of a worker and the match on
\* the message: a job starts to run, or the thread leaves its loop
WorkerRecv(wk) ==
    /\ pool.at[wk] = "recv" /\ pool.chan # <<>>
    /\ LET message == Head(pool.chan) IN
       pool' = [pool EXCEPT
                  !.chan = Tail(@),
                  !.at[wk] = worker_match(message),
                  !.runs = IF message.kind = "NewJob"
                           THEN Append(@, <<message.job, wk>>) ELSE @,
                  !.terms[wk] = IF message.kind = "Terminate" THEN @ + 1 ELSE @]
    /\ UNCHANGED <<wvars, pvars, svars, routers, listeners_made, rres, slab, freed,
                   slast, take, poll>>

\* job() returns and the worker is at the top of its loop again
WorkerJobDone(wk) ==
    /\ pool.at[wk] = "job"
    /\ pool' = [pool EXCEPT !.at[wk] = "recv"]
    /\ UNCHANGED <<wvars, pvars, svars, routers, listeners_made, rres, slab, freed,
                   slast, take, poll>>

\* What the threads do once the owner has begun to drop the pool.
PoolShutdownStep ==
    \/ pool.phase = "sending" /\ PoolDropSend
    \/ PoolJoin
    \/ \E wk \in PoolWorkers(NumWorkers) : WorkerRecv(wk) \/ WorkerJobDone(wk)

PoolNext ==
    \/ PoolExecute
    \/ PoolDropSend
    \/ PoolJoin
    \/ \E wk \in PoolWorkers(NumWorkers) : WorkerRecv(wk)
    \/ \E wk \in PoolWorkers(NumWorkers) : WorkerJobDone(wk)

SpecPool == PoolInit /\ [][PoolNext]_vars

\* Every thread is scheduled and every job returns; the owner is free to
\* submit or not and to drop the pool whenever it likes.
SpecPoolFair == SpecPool /\ WF_vars(PoolShutdownStep)

\* The body a finished parse of the harness returned.
ParsedBody == IF pmode = "body" THEN pres.val ELSE pres.val.body

RECURSIVE Sum(_)
Sum(seq) == IF seq = <<>> THEN 0 ELSE seq[1] + Sum(Tail(seq))

-----------------------------------------------------------------------------
(* C1: byte conservation of the buffered writer: as long as the inner      *)
(* writer only ever accepted bytes or reported WouldBlock, the bytes it    *)
(* accepted followed by the pending bytes buf[pos..] are exactly the bytes *)
(* passed to write, in call order.                                         *)
C1_ByteConservation ==
    ~wfailed => (w.inner \o Pending(w) = written)

(* C4: every body returned by a successful body or request parse is at     *)
(* most MAX_BODY_SIZE long, in every body mode and for any fragmentation    *)
(* and any number of WouldBlock suspensions; the declared chunk sizes of an *)
(* accepted chunked body sum to at most MAX_BODY_SIZE.                     *)
C4_BodyWithinLimit ==
    (pmode \in {"body", "request"} /\ pres.st = "done") =>
        /\ Len(ParsedBody) <= MAX_BODY_SIZE
        /\ Sum(pres.sizes) <= MAX_BODY_SIZE

(* C5: a headers parser never consumes more than MAX_HEADERS_SIZE bytes of *)
(* the stream, summed over all of its parse calls, whatever the             *)
(* fragmentation and the WouldBlock suspensions between the calls.         *)
C5_HeadersWithinLimit ==
    pmode = "headers" => ppos <= MAX_HEADERS_SIZE

(* C6: a request with Content-Length exactly MAX_BODY_SIZE whose body bytes *)
(* have all arrived parses successfully with a body of that length; with    *)
(* Content-Length MAX_BODY_SIZE + 1 it ends with ContentLengthTooLarge and  *)
(* no byte of the body has been consumed.                                  *)
C6_ContentLengthBoundary ==
    (pmode = "request" /\ pres.st # "none") =>
        /\ pin = RequestWithContentLength(MAX_BODY_SIZE) =>
              pres.st = "done" /\ Len(pres.val.body) = MAX_BODY_SIZE
        /\ pin = RequestWithContentLength(MAX_BODY_SIZE + 1) =>
              /\ pres.st = "err" /\ pres.err = "ContentLengthTooLarge"
              /\ ppos = Len(pin) - (MAX_BODY_SIZE + 1)

(* C7: the final outcome of a request parser driven over any fragmentation *)
(* of the bytes, with any WouldBlock suspensions, is the outcome of a       *)
(* single parse call of a new parser that sees all those bytes at once.    *)
C7_FragmentationIndependence ==
    (pmode = "request" /\ pres.st # "none") =>
        pres = Outcome(RequestParser_parse(RequestParser_new, Take(pin, pavail),
                                           ptail, overflow_checks))

\* The data of the chunks with the given declared sizes, read off a chunked
\* stream: after each size line, that many bytes, then CRLF.
RECURSIVE ChunkData(_, _)
ChunkData(stream, sizes) ==
    IF sizes = <<>> THEN <<>>
    ELSE LET start == IndexOf(stream, LF, Len(stream)) IN
         SubSeq(stream, start + 1, start + sizes[1])
             \o ChunkData(Drop(stream, start + sizes[1] + 2), Tail(sizes))

(* C8: the body of every chunked body parsed successfully is as long as    *)
(* the declared sizes of all chunks read sum to, and is the concatenation   *)
(* of the chunks' data in arrival order.                                   *)
C8_ChunkedBodyIsChunkData ==
    (pmode \in {"body", "request"} /\ pres.st = "done" /\ pres.sizes # <<>>) =>
        /\ Len(ParsedBody) = Sum(pres.sizes)
        /\ pmode = "body" => ParsedBody = ChunkData(pin, pres.sizes)

\* A chunked body of three chunks has been parsed after a suspension.
C8_Witness ==
    /\ pmode = "body" /\ pres.st = "done" /\ psuspended
    /\ Len(pres.sizes) = 3 /\ Len(pres.val) = MAX_BODY_SIZE + 1

IsPrefix(a, b) == Len(a) <= Len(b) /\ a = Take(b, Len(a))

\* The bytes of the response the server owes a request with the given uri.
ResponseBytes(uri) ==
    LET res == Router_result(Listeners, [uri |-> uri]).result IN
    IF res.kind = "Next" THEN NOT_FOUND_RESPONSE
    ELSE Concat(response_pieces(res.response))

\* The responses to all requests routed so far, in order.
RoutedResponses == Concat([i \in 1..Len(routed) |-> ResponseBytes(routed[i])])

\* The last read_request call, if any, returned the given result.
LastRead(kind) == read_log # <<>> /\ read_log[Len(read_log)] = kind

(* C2: whenever the connection is dropped after a response has been        *)
(* written (to a request with Connection: close, or the canned 400) and no  *)
(* socket write has failed with an error other than WouldBlock, the writer  *)
(* holds no pending bytes.                                                 *)
C2_NoPendingAtDrop ==
    (/\ dropped # <<>>
     /\ dropped[1].kind \in {"Ready", "IoErr", "ParseErr"}
     /\ dropped[1].write_ok)
        => Pending(conn.w) = <<>>

(* C3: the bytes the socket has accepted are, at any time, the start of    *)
(* the concatenation of one response per parsed request, in the order the   *)
(* requests were parsed (followed by the canned 400 after a read error).    *)
C3_ResponsesInOrder ==
    IsPrefix(conn.w.inner,
             RoutedResponses \o (IF LastRead("IoErr") \/ LastRead("ParseErr")
                                 THEN REQUEST_PARSING_ERROR_RESPONSE ELSE <<>>))

(* C9: when the first of two requests carries Connection: close, once it   *)
(* has been read the server has routed it alone, has written its response  *)
(* alone, has dropped the connection, and has made no read_request call     *)
(* after the one that returned it: no byte of the second request is read.   *)
C9_CloseAfterFirstResponse ==
    (IsPrefix(sin, CloseThenGet) /\ \E i \in 1..Len(read_log) : read_log[i] = "Ready")
        => /\ LastRead("Ready")
           /\ \A i \in 1..(Len(read_log) - 1) : read_log[i] = "NotReady"
           /\ routed = <<<<47>>>>
           /\ rpos = Len(GetWithClose)
           /\ dropped # <<>> /\ dropped[1].kind = "Ready"
           /\ IsPrefix(handed, ResponseBytes(<<47>>))
           /\ dropped[1].write_ok => handed = ResponseBytes(<<47>>)

\* Both requests had arrived, the first was answered and the connection
\* dropped, and a later job has come and gone.
C9_Witness ==
    /\ sin = CloseThenGet /\ savail = Len(sin)
    /\ dropped # <<>> /\ dropped[1].kind = "Ready" /\ dropped[1].write_ok
    /\ events > 1 /\ queue = 0 /\ \A wk \in Workers : pc[wk] = "idle"

(* C10: once read_request has reported a parse error, that call is the     *)
(* last read_request call of the connection, nothing was routed after it,   *)
(* the canned 400 was passed to the writer exactly once, after the          *)
(* responses to the requests before it, and the connection is dropped.      *)
C10_ParseErrorTerminal ==
    (\E i \in 1..Len(read_log) : read_log[i] = "ParseErr")
        => /\ LastRead("ParseErr")
           /\ \A i \in 1..(Len(read_log) - 1) : read_log[i] \in {"NotReady", "Ready"}
           /\ Len(routed) = Cardinality({i \in 1..Len(read_log) : read_log[i] = "Ready"})
           /\ handed = RoutedResponses \o REQUEST_PARSING_ERROR_RESPONSE
           /\ dropped # <<>> /\ dropped[1].kind = "ParseErr"

\* A bad request was followed by a well-formed one that had arrived too; the
\* connection was dropped and a later job has come and gone.
C10_Witness ==
    /\ sin = BadThenGet /\ savail = Len(sin) /\ rpos < Len(sin)
    /\ dropped # <<>> /\ dropped[1].kind = "ParseErr"
    /\ events > 1 /\ queue = 0 /\ \A wk \in Workers : pc[wk] = "idle"

(* C11: when read_request ends with an io error that is neither WouldBlock  *)
(* nor an orderly close, the connection is dropped and no byte is written   *)
(* to it: all that was ever passed to its writer are the responses to the   *)
(* requests routed before.                                                  *)
C11_FatalIoNoResponse ==
    LastRead("IoErr") => (dropped # <<>> /\ handed = RoutedResponses)

\* The result of the parse call that read_request is about to make.
PendingParse ==
    RequestParser_parse(IF conn.parser = <<>> THEN RequestParser_new
                        ELSE conn.parser[1],
                        SubSeq(sin, rpos + 1, savail),
                        IF sclosed THEN "eof" ELSE "WouldBlock", overflow_checks)

(* C12: every read_request call returns Closed exactly when the parser      *)
(* suspended with UnexpectedEof while has_data() is false or suspended with *)
(* ConnectionAborted; UnexpectedEof after at least one byte of the current  *)
(* request was consumed gives Error(IoErr); WouldBlock gives NotReady; a    *)
(* parse failure gives Error(ParseErr).                                     *)
C12_ReadRequestResults ==
    [][read_log' # read_log =>
          LET r == PendingParse
              kind == read_log'[Len(read_log')]
          IN  /\ kind = "Closed" <=>
                    /\ r.st = "io"
                    /\ \/ r.err = "UnexpectedEof" /\ ~has_data(r.val)
                       \/ r.err = "ConnectionAborted"
              /\ (r.st = "io" /\ r.err = "UnexpectedEof" /\ rpos' > rstart)
                    => kind = "IoErr"
              /\ (r.st = "io" /\ r.err = "WouldBlock") => kind = "NotReady"
              /\ r.st = "err" => kind = "ParseErr"]_vars

(* C13: at most one worker at a time is between taking the Connection out   *)
(* of its cell and finishing with it, and while one is, the cell is empty   *)
(* and that worker holds the mutex.                                         *)
C13_OneWorkerPerConnection ==
    /\ Cardinality({wk \in Workers : pc[wk] = "running"}) <= 1
    /\ \A wk \in Workers : pc[wk] = "running" => (cell = "None" /\ lock = wk)

\* One worker is processing the connection while the job of another event
\* for it has been taken off the queue by the other worker.
C13_Witness ==
    \E a, b \in Workers : pc[a] = "running" /\ pc[b] = "waiting" /\ rpos > 0

(* C14: no worker waits for another worker: a job that starts while another *)
(* worker is processing the connection returns at once, so no worker is     *)
(* ever inside a job for the connection while another one is processing it. *)
C14_NoWorkerParks ==
    \A a, b \in Workers : ~(pc[a] = "running" /\ pc[b] = "waiting")

\* The listeners of a router and of its sub-routers in registration order
\* (those of a sub-router where it was registered), each with the prefixes
\* of the routers it is nested under, its own prefix or uri, and its result.
RECURSIVE Flatten(_, _)
Flatten(router, prefixes) ==
    LET item(e) ==
            IF e.listener.kind = "route"
            THEN Flatten(e.listener.router, Append(prefixes, e.prefix))
            ELSE IF e.listener.kind = "on"
            THEN <<[id |-> e.listener.listener.id, prefixes |-> prefixes,
                    exact |-> TRUE, uri |-> e.listener.uri_string,
                    result |-> e.listener.listener.result]>>
            ELSE <<[id |-> e.listener.id, prefixes |-> prefixes, exact |-> FALSE,
                    uri |-> e.prefix, result |-> e.listener.result]>>
    IN  Concat([i \in 1..Len(router) |-> item(router[i])])

\* Whether a request uri reaches a listener: it begins with the prefixes of
\* the enclosing routers and goes on with the listener's prefix, or is the
\* listener's uri.
Reaches(uri, item) ==
    LET outer == Concat(item.prefixes) IN
    /\ StartsWith(uri, outer)
    /\ IF item.exact THEN Drop(uri, Len(outer)) = item.uri
       ELSE StartsWith(Drop(uri, Len(outer)), item.uri)

\* The listeners of the finished router a request uri reaches, in order.
Reached(uri) == SelectSeq(Flatten(routers[1], <<>>), LAMBDA item : Reaches(uri, item))

\* Those of them up to the first whose result is not Next.
Invoked(uri) ==
    LET reached == Reached(uri)
        stops == {i \in 1..Len(reached) : reached[i].result # ListenerNext}
    IN  IF stops = {} THEN reached
        ELSE Take(reached, CHOOSE i \in stops : \A j \in stops : i <= j)

(* C15: for a request uri, the listeners invoked are exactly those whose    *)
(* prefix is a prefix of the uri, in registration order (a sub-router's     *)
(* where route registered it), up to the first result that is not Next;     *)
(* that result is returned, and Next if there is none.                      *)
C15_RouterPrecedence ==
    rres # <<>> =>
        LET invoked == Invoked(rres[1].uri) IN
        /\ [i \in 1..Len(rres[1].calls) |-> rres[1].calls[i].id]
               = [i \in 1..Len(invoked) |-> invoked[i].id]
        /\ rres[1].result = IF invoked = <<>> THEN ListenerNext
                            ELSE Last(invoked).result

\* A listener before a sub-router and one inside it returned Next and a
\* third got the request and answered it, leaving one that was not called.
C15_Witness ==
    /\ rres # <<>> /\ Len(rres[1].calls) >= 2
    /\ rres[1].result # ListenerNext
    /\ Len(Reached(rres[1].uri)) > Len(rres[1].calls)
    /\ \E i \in 1..Len(routers[1]) : routers[1][i].listener.kind = "route"

\* The record of the listener with the given id in the finished router.
ItemOf(id) ==
    LET flat == Flatten(routers[1], <<>>) IN
    flat[CHOOSE i \in 1..Len(flat) : flat[i].id = id]

(* C16: a listener in a router nested under the prefixes p1, ..., pk gets   *)
(* as its local uri the request uri without p1 ... pk at its front, and the *)
(* request it gets carries the whole request uri.                           *)
C16_NestedPrefixesStripped ==
    rres # <<>> =>
        \A i \in 1..Len(rres[1].calls) :
            LET call == rres[1].calls[i]
                outer == Concat(ItemOf(call.id).prefixes)
            IN  /\ outer \o call.uri = rres[1].uri
                /\ call.request.uri = rres[1].uri

\* A listener two routers deep, under two different prefixes, was called.
C16_Witness ==
    /\ rres # <<>>
    /\ \E i \in 1..Len(rres[1].calls) :
          LET prefixes == ItemOf(rres[1].calls[i].id).prefixes IN
          /\ Len(prefixes) = 2 /\ prefixes[1] # <<>> /\ prefixes[2] # <<>>
          /\ prefixes[1] # prefixes[2]
          /\ rres[1].calls[i].uri # <<>>

\* Where the listener with the given id stands in registration order.
PlaceOf(id) ==
    LET flat == Flatten(routers[1], <<>>) IN
    CHOOSE i \in 1..Len(flat) : flat[i].id = id

\* The ids of the listeners called for the last request.
CalledIds == {rres[1].calls[i].id : i \in 1..Len(rres[1].calls)}

\* The listeners registered with on, in the finished router.
OnItems ==
    LET flat == Flatten(routers[1], <<>>) IN
    {flat[i] : i \in {j \in 1..Len(flat) : flat[j].exact}}

\* The request got as far as the listener: its router was reached and no
\* listener before it returned a result other than Next.
GotAsFar(item) ==
    /\ StartsWith(rres[1].uri, Concat(item.prefixes))
    /\ \A i \in 1..Len(Invoked(rres[1].uri)) :
          Invoked(rres[1].uri)[i].result # ListenerNext
              => PlaceOf(Invoked(rres[1].uri)[i].id) >= PlaceOf(item.id)

(* C17: a listener registered with on(uri, h) is called if and only if the  *)
(* uri local to its router is exactly uri, also in a router nested with     *)
(* route: it is never called with another local uri, and it is called       *)
(* whenever a request with that local uri gets as far as it.                *)
C17_OnMatchesExactly ==
    rres # <<>> =>
        \A item \in OnItems :
            LET local == Drop(rres[1].uri, Len(Concat(item.prefixes))) IN
            /\ item.id \in CalledIds =>
                  /\ local = item.uri
                  /\ \A i \in 1..Len(rres[1].calls) :
                        rres[1].calls[i].id = item.id
                            => rres[1].calls[i].uri = item.uri
            /\ (GotAsFar(item) /\ local = item.uri) => item.id \in CalledIds

\* A nested listener registered with on was passed over for a request whose
\* local uri only begins with its uri, and the request went on to a later
\* listener.
C17_Witness ==
    /\ rres # <<>>
    /\ \E item \in OnItems :
          /\ item.prefixes # <<>> /\ item.uri # <<>>
          /\ GotAsFar(item)
          /\ StartsWith(Drop(rres[1].uri, Len(Concat(item.prefixes))), item.uri)
          /\ item.id \notin CalledIds
          /\ \E id \in CalledIds : PlaceOf(id) > PlaceOf(item.id)

(* C18: the key insert returns is the value next_key() had just before the  *)
(* insert, get(key) then returns the inserted element, and next_key()       *)
(* leaves the slab as it was.                                               *)
C18_InsertReturnsNextKey ==
    slast # <<>> =>
        /\ slast[1].op = "insert" =>
              /\ slast[1].ret = slast[1].preview
              /\ get(slab, slast[1].ret) = <<slast[1].arg>>
        /\ slast[1].op = "next_key" =>
              /\ slab = slast[1].before
              /\ slast[1].ret = slast[1].preview

\* An insert has reused one of two open slots.
C18_Witness ==
    /\ slast # <<>> /\ slast[1].op = "insert"
    /\ Len(slast[1].before.open_slots) = 2
    /\ slast[1].ret < Len(slast[1].before.data) - 1

(* C19: an insert reuses the slot that was freed first among the freed      *)
(* slots not yet reused, and appends a new slot only when there is none.    *)
C19_FreeListFifo ==
    (slast # <<>> /\ slast[1].op = "insert") =>
        slast[1].ret = IF slast[1].freed # <<>> THEN slast[1].freed[1]
                       ELSE Len(slast[1].before.data)

(* C20: remove on an empty slot returns None and leaves the slab, its open  *)
(* slots included, as it was; get and remove with a key beyond the backing  *)
(* array return None and leave the slab as it was.                          *)
C20_SlabErrorCases ==
    slast # <<>> =>
        LET call == slast[1] IN
        /\ (call.op = "remove" /\ get(call.before, call.arg) = <<>>) =>
              (call.ret = <<>> /\ slab = call.before)
        /\ (call.op \in {"get", "remove"} /\ call.arg >= Len(call.before.data)) =>
              (call.ret = <<>> /\ slab = call.before)
        /\ \A i \in 1..Len(slab.open_slots) :
              /\ get(slab, slab.open_slots[i]) = <<>>
              /\ slab.open_slots[i] < Len(slab.data)
              /\ \A j \in 1..Len(slab.open_slots) :
                    slab.open_slots[i] = slab.open_slots[j] => i = j

\* A slot was removed a second time while another slot was open.
C20_Witness ==
    /\ slast # <<>> /\ slast[1].op = "remove"
    /\ slast[1].arg < Len(slast[1].before.data)
    /\ get(slast[1].before, slast[1].arg) = <<>>
    /\ Len(slab.open_slots) = 2

-----------------------------------------------------------------------------
(* The writer under back-pressure *)

\* What the inner writer reported during the last call of the harness.
InnerReports(c) ==
    {c.calls[i].kind : i \in 1..Len(c.calls)} \cup {c.flushed}

\* C21: a write or flush call returns Ok whenever the inner writer reported
\* nothing worse than WouldBlock, write returns the length of its argument
\* then, and the call returns Err as soon as the inner writer reported
\* another error.
C21_BackPressureAbsorbed ==
    \A i \in 1..Len(wlast) :
        /\ wlast[i].ok <=> "err" \notin InnerReports(wlast[i])
        /\ (wlast[i].op = "write" /\ wlast[i].ok) => wlast[i].ret = wlast[i].len

\* a write and a flush during which the inner writer reported WouldBlock
C21_Witness ==
    /\ wlast # <<>>
    /\ wlast[1].op = "write" /\ wlast[1].len > 0
    /\ "block" \in InnerReports(wlast[1])
    /\ wlast[1].ok /\ Pending(w) # <<>>

\* C22: when a write call whose argument is longer than the capacity given
\* to with_capacity returns, the internal buffer holds no more than that
\* many bytes.
C22_BufferWithinCapacity ==
    \A i \in 1..Len(wlast) :
        (wlast[i].op = "write" /\ wlast[i].ok /\ wlast[i].len > WriterCap)
            => Len(w.buf) <= WriterCap

\* the same for the bytes not yet written, buf[pos..]
C22_PendingWithinCapacity ==
    \A i \in 1..Len(wlast) :
        (wlast[i].op = "write" /\ wlast[i].ok /\ wlast[i].len > WriterCap)
            => Len(Pending(w)) <= WriterCap

-----------------------------------------------------------------------------
(* What a request parser has consumed *)

\* C23: a request parser (new, or handed back by a parse call that stopped
\* on an io error) reports has_data() exactly when it has consumed at
\* least one byte of the stream since it was created.
C23_HasDataIffConsumed ==
    (pmode = "request" /\ pres.st \in {"none", "io"})
        => (has_data(pparser) <=> ppos > 0)

\* The length of the first request of a stream as its sender frames it: the
\* head up to the first empty line and as many body bytes as its
\* Content-Length header declares (none without the header).  0 if the head
\* is not complete.
FrameLen(s) ==
    LET h == Find(s, CRLF \o CRLF)
        head == Take(s, h + Len(CRLF) - 1)
        name == CONTENT_LENGTH \o <<COLON, SP>>
        at == Find(make_ascii_lowercase(head), name)
        value == Drop(head, at + Len(name) - 1)
        digits == Take(value, IndexOf(value, CR, Len(value)) - 1)
    IN  IF h = 0 THEN 0
        ELSE h + Len(CRLF \o CRLF) - 1
               + (IF at = 0 THEN 0 ELSE DigitsValue(digits, 10, 0))

\* Where the k-th request of a stream ends.
RECURSIVE FrameEnd(_, _)
FrameEnd(s, k) ==
    IF k = 0 THEN 0
    ELSE LET e == FrameEnd(s, k - 1) IN e + FrameLen(Drop(s, e))

\* The uri in the first line of the k-th request of a stream.
FrameUri(s, k) == Split(Drop(s, FrameEnd(s, k - 1)), SP)[2]

-----------------------------------------------------------------------------
(* The limit of the first line *)

\* The size of the first line of the stream, its line feed included (0 if
\* the line feed is not there).
FirstLineSize == IndexOf(pin, LF, Len(pin))

\* C25: a request whose first line has exactly MAX_LINE_SIZE bytes is
\* parsed (the parse ends with the request, or with UnexpectedEof if the
\* peer closed before the end of the head); a request whose first line has
\* one byte more ends with the io error "read limit reached"; however the
\* line is cut into reads.
C25_LineLimitBoundary ==
    (pmode = "request" /\ pres.st # "none") =>
        /\ FirstLineSize = MAX_LINE_SIZE
              => \/ pres.st = "done"
                 \/ pres.st = "io" /\ pres.err = "UnexpectedEof"
        /\ FirstLineSize = MAX_LINE_SIZE + 1
              => pres.st = "io" /\ pres.err = "Other"

\* the same for first lines that are ASCII throughout
C25_AsciiLineLimitBoundary ==
    (\A i \in 1..FirstLineSize : pin[i] < 128) => C25_LineLimitBoundary

\* both sides of the boundary are met after a suspension inside the line
C25_AsciiWitness ==
    /\ pmode = "request" /\ psuspended
    /\ \/ FirstLineSize = MAX_LINE_SIZE /\ pres.st = "done"
       \/ FirstLineSize = MAX_LINE_SIZE + 1 /\ pres.st = "io" /\ pin[1] < 128

-----------------------------------------------------------------------------
(* The error-bounded reader *)

\* C26: a reader made by error_take(n) delivers at most n bytes in all, and
\* a read or fill_buf called when the quota left is zero fails with "read
\* limit reached" ("Other") and never returns Ok.
C26_ErrorTakeLimit ==
    take # <<>> =>
        /\ take.delivered <= take.n
        /\ take.delivered + take.t.limit = take.n
        /\ (take.last.op \in {"read", "fill_buf"} /\ take.last.quota = 0)
              => (take.last.res = "Other" /\ take.last.n = 0)

\* the whole quota has been delivered and the next read has failed
C26_Witness ==
    /\ take # <<>>
    /\ take.n > 0 /\ take.delivered = take.n /\ take.t.rest > 0
    /\ take.last.op = "read" /\ take.last.res = "Other"

-----------------------------------------------------------------------------
(* Shutdown of the thread pool *)

\* The workers that ran job j.
RanBy(j) == {pool.runs[i][2] : i \in {k \in 1..Len(pool.runs) : pool.runs[k][1] = j}}

\* How many times job j was started.
TimesRun(j) == Cardinality({k \in 1..Len(pool.runs) : pool.runs[k][1] = j})

\* No job runs twice and no worker receives a second Terminate; when drop
\* has returned every submitted job was run once, every worker has
\* received its Terminate and returned, and the channel is empty.
PoolShutdownSafe ==
    /\ \A j \in 1..pool.submitted : TimesRun(j) <= 1
    /\ \A wk \in PoolWorkers(pool.size) : pool.terms[wk] <= 1
    /\ pool.phase = "dropped" =>
          /\ \A j \in 1..pool.submitted :
                 TimesRun(j) = 1 /\ Cardinality(RanBy(j)) = 1
          /\ \A wk \in PoolWorkers(pool.size) :
                 pool.terms[wk] = 1 /\ pool.at[wk] = "returned"
          /\ pool.chan = <<>>

\* C27: when the pool is dropped, every job submitted before is run exactly
\* once by one worker, every worker receives exactly one Terminate and
\* returns, and drop, once begun, completes.
C27_PoolShutdown ==
    /\ []PoolShutdownSafe
    /\ (pool.phase # "open") ~> (pool.phase = "dropped")

\* drop has returned after all MaxJobs jobs were submitted, and the jobs
\* were run by different workers
C27_Witness ==
    /\ pool # <<>>
    /\ pool.phase = "dropped" /\ pool.submitted = MaxJobs
    /\ \E i, k \in 1..Len(pool.runs) : pool.runs[i][2] # pool.runs[k][2]

-----------------------------------------------------------------------------
(* The chunked body parser *)

\* The chunks parser of the harness while a chunked body parse is
\* suspended, or <<>>.
SuspendedChunks ==
    IF pmode = "body" /\ pres.st \in {"none", "io"} /\ pparser.kind = "Chunked"
    THEN <<pparser.p>> ELSE <<>>

\* The states the chunks parser has been in and the sizes of the chunks it
\* has read, from the suspended parser or from the final result.
ChunkPath ==
    IF SuspendedChunks # <<>> THEN SuspendedChunks[1].path
    ELSE IF pres.st \in {"done", "err"} THEN pres.path ELSE <<>>

ChunkSizes ==
    IF SuspendedChunks # <<>> THEN SuspendedChunks[1].sizes
    ELSE IF pres.st \in {"done", "err"} THEN pres.sizes ELSE <<>>

\* The transitions of the state machine as the claim has them.
ChunkTransitions ==
    {<<"Size", "Data">>, <<"Data", "TailingCrlf">>, <<"TailingCrlf", "Size">>,
     <<"TailingCrlf", "Finished">>}

\* The last chunk of a chunked stream: a size line of zero and the CRLF
\* after its (empty) data.
LastChunk == Chunk(<<>>)

\* The n bytes of the stream that were consumed last.
LastConsumed(n) == SubSeq(pin, ppos - n + 1, ppos)

RECURSIVE Misframed(_, _)
Misframed(stream, sizes) ==
    IF sizes = <<>> THEN FALSE
    ELSE LET at == IndexOf(stream, LF, Len(stream)) + sizes[1] IN
         IF Len(stream) < at + Len(CRLF) THEN FALSE
         ELSE IF SubSeq(stream, at + 1, at + Len(CRLF)) # CRLF THEN TRUE
         ELSE Misframed(Drop(stream, at + Len(CRLF)), Tail(sizes))

\* C29: when the data of a chunk is not followed by an empty CRLF line
\* (the data is longer or shorter than declared), the parse returns no
\* body, and the error it ends with is BadSyntax.
C29_MisframedChunkFails ==
    (pmode = "body" /\ Misframed(pin, ChunkSizes)) =>
        /\ pres.st # "done"
        /\ pres.st = "err" => pres.err = "BadSyntax"

\* its first half alone: no body is returned
C29_MisframedChunkNoBody ==
    (pmode = "body" /\ Misframed(pin, ChunkSizes)) => pres.st # "done"

\* the same for streams that are ASCII throughout
C29_AsciiMisframedChunkFails ==
    (\A i \in 1..Len(pin) : pin[i] < 128) => C29_MisframedChunkFails

\* a chunk with a byte too many has ended the parse after a suspension
C29_AsciiWitness ==
    /\ pmode = "body" /\ psuspended /\ \A i \in 1..Len(pin) : pin[i] < 128
    /\ Misframed(pin, ChunkSizes)
    /\ pres.st = "err" /\ pres.err = "BadSyntax"

-----------------------------------------------------------------------------
(* read_so_far of the deframers *)

\* C30: whenever a parse is suspended, read_so_far() of the deframer at
\* work (the fixed-size one of a body with Content-Length, the until-EOF
\* one of a body without, the line deframer of the first line) is the
\* number of bytes that deframer has consumed from the stream.
C30_ReadSoFarIsConsumed ==
    (psuspended /\ pres.st = "none") =>
        /\ (pmode = "body" /\ pparser.kind = "WithSize")
               => BytesDeframer_read_so_far(pparser.p) = ppos
        /\ (pmode = "body" /\ pparser.kind = "UntilEof")
               => BytesUntilEofDeframer_read_so_far(pparser.p) = ppos
        /\ (pmode = "request" /\ pparser.state = "FirstLine")
               => LineDeframer_read_so_far(pparser.line) = ppos

\* the same for the until-EOF deframer alone
C30_UntilEofReadSoFar ==
    (psuspended /\ pres.st = "none" /\ pmode = "body" /\ pparser.kind = "UntilEof")
        => BytesUntilEofDeframer_read_so_far(pparser.p) = ppos

\* the same for the fixed-size deframer alone
C30_BytesReadSoFar ==
    (psuspended /\ pres.st = "none" /\ pmode = "body" /\ pparser.kind = "WithSize")
        => BytesDeframer_read_so_far(pparser.p) = ppos

-----------------------------------------------------------------------------
(* The connection between jobs *)

JobEnds(wk) == pc[wk] \in {"waiting", "running"} /\ pc'[wk] \in {"idle", "dead"}

\* C32: when a job ends, the cell holds the connection exactly if the job's
\* last read_request returned NotReady (a write or flush error ends the job
\* with the cell empty); once the connection has been dropped the cell is
\* empty for ever, and no later step reads, writes or routes.
C32_CellHandBack ==
    [][/\ \A wk \in Workers : JobEnds(wk) =>
            /\ cell' = "Some" <=>
                  /\ read_log' # read_log
                  /\ read_log'[Len(read_log')] = "NotReady"
                  /\ dropped' = <<>>
            /\ cell' = "None" <=> (dropped' # <<>> \/ read_log' = read_log)
            /\ dropped' # dropped =>
                  \/ dropped'[1].kind \in {"Closed", "IoErr", "ParseErr", "Flush", "Panic"}
                  \/ dropped'[1].kind = "Ready" /\ ~dropped'[1].write_ok
                  \/ /\ dropped'[1].kind = "Ready"
                     /\ PendingParse.st = "done"
                     /\ should_close_after_response(PendingParse.val)
       /\ dropped # <<>> =>
            /\ cell' = "None" /\ dropped' = dropped
            /\ read_log' = read_log /\ rpos' = rpos
            /\ routed' = routed /\ handed' = handed /\ conn' = conn]_vars

\* the connection was put back once, was dropped by a later job, and a
\* further job is about to find the cell empty
C32_Witness ==
    /\ cell = "None" /\ dropped # <<>> /\ lock = 0
    /\ \E i \in 1..Len(read_log) : read_log[i] = "NotReady"
    /\ \E wk \in Workers : pc[wk] = "waiting"

\* C33: a job that finds the connection in its cell flushes the writer
\* before it reads; if the flush is an Err the job ends there, the
\* connection dropped and nothing read; every read_request follows an Ok
\* flush or write of the running job; and a write error while responding
\* ends the job with the connection dropped.
C33_FlushFirst ==
    [][/\ \A wk \in Workers :
            (pc[wk] = "waiting" /\ pc'[wk] # "waiting" /\ cell = "Some") =>
                /\ read_log' = read_log /\ rpos' = rpos /\ handed' = handed
                /\ wlast' # <<>>
                /\ \E f \in flush_results(conn.w) :
                       f.ok = wlast'[1].ok /\ conn'.w = f.w
                /\ IF wlast'[1].ok
                   THEN pc'[wk] = "running" /\ lock' = wk /\ dropped' = <<>>
                   ELSE /\ pc'[wk] = "idle" /\ lock' = 0
                        /\ cell' = "None" /\ dropped' # <<>>
       /\ read_log' # read_log =>
            /\ \E wk \in Workers : pc[wk] = "running" /\ lock = wk
            /\ wlast # <<>> /\ wlast[1].ok
            /\ ~wlast'[1].ok =>
                  /\ dropped' # <<>> /\ cell' = "None"
                  /\ \A wk \in Workers : pc'[wk] # "running"]_vars

\* a job's flush failed while unread bytes of the client were in the
\* socket: the connection was dropped and they were never read
C33_Witness ==
    /\ dropped # <<>> /\ dropped[1].kind = "Flush"
    /\ read_log # <<>> /\ rpos < savail
    /\ wlast = <<[ok |-> FALSE]>>

\* a write failed while a response was written: the connection was dropped
C33_WriteWitness ==
    /\ dropped # <<>> /\ dropped[1].kind = "Ready" /\ ~dropped[1].write_ok
    /\ wlast = <<[ok |-> FALSE]>> /\ cell = "None"

-----------------------------------------------------------------------------
(* The budgets of the parsers *)

\* the headers parser the next parse call will run, if it runs one
SuspendedHeaders ==
    IF pmode = "headers" THEN <<pparser>>
    ELSE IF pmode = "request" /\ pparser.state = "Headers" THEN <<pparser.hp>>
    ELSE <<>>

\* the body parser the next parse call will run, if it runs one
SuspendedBody ==
    IF pmode = "body" THEN <<pparser>>
    ELSE IF pmode = "request" /\ pparser.state = "Body" THEN <<pparser.bp>>
    ELSE <<>>

\* the line the next parse call will go on reading, if it is inside one
SuspendedLine ==
    IF pmode = "request" /\ pparser.state = "FirstLine" THEN pparser.line
    ELSE IF SuspendedHeaders # <<>> THEN SuspendedHeaders[1].inner
    ELSE <<>>

\* the line deframer's subtraction MAX_LINE_SIZE - read_so_far
C35_LineBudget ==
    pres.st = "none" => LineDeframer_read_so_far(SuspendedLine) <= MAX_LINE_SIZE

\* the headers parser's subtraction MAX_HEADERS_SIZE - read
C35_HeadersBudget ==
    (pres.st = "none" /\ SuspendedHeaders # <<>>) =>
        SuspendedHeaders[1].read <= MAX_HEADERS_SIZE

\* the body parser's subtraction MAX_BODY_SIZE - read_so_far
C35_BodyBudget ==
    (pres.st = "none" /\ SuspendedBody # <<>>) =>
        BodyParser_read_so_far(SuspendedBody[1]) <= MAX_BODY_SIZE

\* C35: whenever a parse call can start, none of the three subtractions
\* limit - read_so_far underflows, and no parse call has panicked on one.
C35_BudgetsNeverUnderflow ==
    /\ C35_LineBudget /\ C35_HeadersBudget /\ C35_BodyBudget
    /\ pres.st # "panic"

-----------------------------------------------------------------------------
(* The slab's open slots *)

\* the indices of the slots of data that hold no element
EmptySlots(self) == {i \in 0..(Len(self.data) - 1) : self.data[i + 1] = <<>>}

\* C36: the open slots are exactly the indices of the empty slots of data,
\* each listed once; an insert puts its element in a slot that was empty or
\* new, returns that slot's index and leaves every other slot as it was.
C36_FreeListConsistent ==
    /\ {slab.open_slots[i] : i \in 1..Len(slab.open_slots)} = EmptySlots(slab)
    /\ Len(slab.open_slots) = Cardinality(EmptySlots(slab))
    /\ (slast # <<>> /\ slast[1].op = "insert") =>
          /\ get(slast[1].before, slast[1].ret) = <<>>
          /\ get(slab, slast[1].ret) = <<slast[1].arg>>
          /\ \A k \in SlabKeys \ {slast[1].ret} :
                 get(slab, k) = get(slast[1].before, k)

\* an insert has reused a freed slot while another slot stays open and a
\* third holds an element
C36_Witness ==
    /\ slast # <<>> /\ slast[1].op = "insert"
    /\ slast[1].before.open_slots # <<>>
    /\ slast[1].ret = slast[1].before.open_slots[1]
    /\ slab.open_slots # <<>>
    /\ Cardinality(EmptySlots(slab)) < Len(slab.data) - 1

-----------------------------------------------------------------------------
(* Wake-ups *)

\* a job is queued or waiting for the mutex while no job holds it, and the
\* connection has not been dropped
WakeUpPending ==
    /\ lock = 0 /\ dropped = <<>>
    /\ queue > 0 \/ \E wk \in Workers : pc[wk] = "waiting"

\* a job has taken the connection out of its cell and flushed it, and is
\* about to call read_request
JobReads == \E wk \in Workers : pc[wk] = "running" /\ lock = wk

\* a job leaves the wait for the mutex only by taking the free mutex, and
\* gives up only if it then finds the cell empty or its flush fails
C39_JobsWait ==
    [][/\ events' # events => queue' = queue + 1
       /\ \A wk \in Workers :
             (pc[wk] = "waiting" /\ pc'[wk] # "waiting") =>
                 /\ lock = 0
                 /\ pc'[wk] = "idle" =>
                       \/ cell = "None"
                       \/ wlast' = <<[ok |-> FALSE]>> /\ dropped' # <<>>]_vars

\* C39: every readiness event queues a job, no job gives up because another
\* holds the connection, and whenever a job is queued or waiting while the
\* connection is in its cell, a job eventually flushes it and goes on to
\* read_request, or the connection is dropped.
C39_NoLostWakeUp ==
    /\ C39_JobsWait
    /\ WakeUpPending ~> (JobReads \/ dropped # <<>>)

\* the same without the drop: whenever a job is queued or waiting while the
\* connection is in its cell, a job eventually flushes it and goes on to
\* read_request
C39_AlwaysReads == WakeUpPending ~> JobReads

\* an event arrived while a job was running; that job put the connection
\* back after NotReady, and the job of the event is about to take it
C39_Witness ==
    /\ cell = "Some" /\ lock = 0 /\ dropped = <<>>
    /\ read_log # <<>> /\ read_log[Len(read_log)] = "NotReady"
    /\ \E wk \in Workers : pc[wk] = "waiting"
    /\ rpos < savail

-----------------------------------------------------------------------------
(* The event loop  (src/server/poll.rs, with the closures of listen_abstract) *)
(*                                                                         *)
(* A stream is known by the order in which it was accepted.  For each the   *)
(* model keeps the token it was registered with, whether the registration   *)
(* succeeded, whether its socket is open (and so registered with the poll), *)
(* whether its cell still holds the connection, whether a worker dropped    *)
(* the connection, how many queued jobs hold a clone of its Arc, and        *)
(* whether the slab holds its Arc.  Of the accept calls listen_until_blocked *)
(* has made the model keeps the parity, so that every call is a step.       *)

\* streams the clients open
MaxStreams == 3
\* jobs queued for one connection at a time
MaxQueued == 2

INITIAL_CONNECTION_CAPACITY == 128

\* A faulty choice of the token of a new stream: the number of slots.
new_connection_token_len(connections) == Len(connections.data)

\* let token = connections.next_key();
new_connection_token(connections) == next_key(connections)

\* The last Arc of a cell is gone when neither the slab nor a job holds
\* one: the cell is freed and the connection in it, if any, is closed.
arc_released(st) ==
    IF ~st.stored /\ st.refs = 0 THEN [st EXCEPT !.open = FALSE, !.cell = "None"]
    ELSE st

\* The stream accepted as number id, if there is one.
StreamIds == 1..Len(poll.streams)

PollInit ==
    /\ w = with_capacity(WriterCap) /\ written = <<>> /\ wfailed = FALSE
    /\ wlast = <<>>
    /\ ParseIdle /\ ServerIdle
    /\ overflow_checks = FALSE
    /\ routers = <<>> /\ listeners_made = 0 /\ rres = <<>>
    /\ slab = <<>> /\ freed = <<>> /\ slast = <<>>
    /\ take = <<>> /\ pool = <<>>
    /\ poll = [connections |-> Slab_with_capacity(INITIAL_CONNECTION_CAPACITY),
               at |-> "poll", calls |-> 0, backlog |-> 0, accept_fails |-> FALSE,
               streams |-> <<>>]

\* what the event loop leaves alone
pollrest == <<wvars, pvars, svars, routers, listeners_made, rres, slab, freed, slast,
              take, pool>>

\* A client connects: its connection waits in the listener's queue.
ClientConnects ==
    /\ Len(poll.streams) + poll.backlog < MaxStreams
    /\ poll' = [poll EXCEPT !.backlog = poll.backlog + 1]
    /\ UNCHANGED pollrest

\* The process runs out of file descriptors (accept fails with EMFILE while
\* it lasts), or has some again.
DescriptorsChange ==
    /\ poll' = [poll EXCEPT !.accept_fails = ~poll.accept_fails]
    /\ UNCHANGED pollrest

\* poll.poll returns an event with LISTENER_TOKEN: the loop enters
\* listen_until_blocked.
ListenerEvent ==
    /\ poll.at = "poll"
    /\ poll' = [poll EXCEPT !.at = "accepting"]
    /\ UNCHANGED pollrest

\* One turn of the loop of listen_until_blocked: listener.accept() and the
\* arm of its result.  Ok runs the closure of listen: next_key, register,
\* insert (register may fail, and the closure returns before the insert).
AcceptCall ==
    /\ poll.at = "accepting"
    /\ IF poll.accept_fails
       THEN \* Err(err), not WouldBlock: printed, and the loop goes on
            poll' = [poll EXCEPT !.calls = 1 - poll.calls]
       ELSE IF poll.backlog = 0
       THEN \* Err(WouldBlock): break
            poll' = [poll EXCEPT !.at = "poll"]
       ELSE \E registered \in BOOLEAN :
            \E token \in {new_connection_token(poll.connections)} :
            \E ins \in {insert(poll.connections, Len(poll.streams) + 1)} :
               poll' = [poll EXCEPT
                   !.calls = 1 - poll.calls,
                   !.backlog = poll.backlog - 1,
                   !.connections = IF registered THEN ins.slab ELSE poll.connections,
                   !.streams = Append(poll.streams,
                       [token |-> token, registered |-> registered,
                        open |-> registered,
                        cell |-> IF registered THEN "Some" ELSE "None",
                        dropped |-> FALSE, refs |-> 0, stored |-> registered])]
    /\ UNCHANGED pollrest

\* An event with is_write_closed() for the token of an open socket:
\* connections.remove(token.0).
WriteClosedEvent ==
    /\ poll.at = "poll"
    /\ \E id \in StreamIds :
          /\ poll.streams[id].open
          /\ \E r \in {remove(poll.connections, poll.streams[id].token)} :
                poll' = [poll EXCEPT
                    !.connections = r.slab,
                    !.streams = IF r.ret = <<>> THEN poll.streams
                                ELSE [poll.streams EXCEPT ![r.ret[1]] =
                                         arc_released([@ EXCEPT !.stored = FALSE])]]
    /\ UNCHANGED pollrest

\* Any other event for the token of an open socket:
\* connections.get(token.0).map(&on_io_ready), which hands the thread pool
\* a job with a clone of the Arc found in that slot.
IoReadyEvent ==
    /\ poll.at = "poll"
    /\ \E id \in StreamIds :
          /\ poll.streams[id].open
          /\ \E found \in {get(poll.connections, poll.streams[id].token)} :
                /\ found # <<>> => poll.streams[found[1]].refs < MaxQueued
                /\ poll' = IF found = <<>> THEN poll
                            ELSE [poll EXCEPT !.streams[found[1]].refs = @ + 1]
    /\ UNCHANGED pollrest

\* A worker runs a queued job, handle_io_ready_connection, to its end: on an
\* empty cell nothing; otherwise the connection is put back or dropped
\* (and its socket closed).  Then the job's Arc is released.
JobRuns ==
    /\ \E id \in StreamIds :
          /\ poll.streams[id].refs > 0
          /\ \E should_close \in BOOLEAN :
                poll' = [poll EXCEPT !.streams[id] =
                    LET st == [@ EXCEPT !.refs = @ - 1] IN
                    arc_released(
                        IF st.cell = "Some" /\ should_close
                        THEN [st EXCEPT !.cell = "None", !.open = FALSE,
                                        !.dropped = TRUE]
                        ELSE st)]
    /\ UNCHANGED pollrest

PollNext ==
    \/ ClientConnects
    \/ DescriptorsChange
    \/ ListenerEvent
    \/ AcceptCall
    \/ WriteClosedEvent
    \/ IoReadyEvent
    \/ JobRuns

SpecPoll == PollInit /\ [][PollNext]_vars

\* The event loop's thread and the worker threads keep running.  Nothing is
\* assumed of the clients, of the events or of the file descriptors.
SpecPollFair == SpecPoll /\ WF_vars(AcceptCall) /\ WF_vars(JobRuns)

\* the slab holds the Arc of stream id in the slot of the stream's token
StoredAtToken(id) ==
    get(poll.connections, poll.streams[id].token) = <<id>>

\* C34: every stream the slab holds is held in the slot whose index is the
\* token the stream was registered with; the token of a new stream is the
\* key the slab offers; and when the registration fails nothing is
\* inserted and the slab offers the same key again.
C34_TokenIsSlabIndex ==
    /\ [](\A id \in StreamIds : poll.streams[id].stored => StoredAtToken(id))
    /\ [][Len(poll'.streams) > Len(poll.streams) =>
            LET st == poll'.streams[Len(poll'.streams)] IN
            /\ st.token = next_key(poll.connections)
            /\ st.stored = st.registered
            /\ ~st.registered =>
                  /\ poll'.connections = poll.connections
                  /\ next_key(poll'.connections) = st.token]_vars

\* a registration failed, and a later stream is stored under the token the
\* failed one was offered, a slot that had been freed
C34_Witness ==
    \E i, j \in StreamIds :
        /\ i < j
        /\ ~poll.streams[i].registered
        /\ poll.streams[j].stored /\ StoredAtToken(j)
        /\ poll.streams[j].token = poll.streams[i].token
        /\ poll.streams[j].token < Len(poll.connections.data) - 1

\* C37: no two open sockets are registered with the same token.
C37_TokensDistinct ==
    \A i, j \in StreamIds :
        (i # j /\ poll.streams[i].open /\ poll.streams[j].open) =>
            poll.streams[i].token # poll.streams[j].token

\* a worker has dropped the connection of stream id and the slab still holds
\* its cell
DroppedAndStored(id) ==
    id \in StreamIds /\ poll.streams[id].dropped /\ poll.streams[id].stored

\* C38: the slab entry of every connection a worker has dropped is
\* eventually removed.
C38_SlotsDoNotLeak ==
    \A id \in 1..MaxStreams :
        DroppedAndStored(id) ~> (id \in StreamIds /\ ~poll.streams[id].stored)

\* C40: listen_until_blocked returns: every listener event's accept loop
\* ends and the event loop goes back to poll.
C40_AcceptLoopTerminates ==
    (poll.at = "accepting") ~> (poll.at = "poll")

====
